---- MODULE Spec2Model ----
(***************************************************************************)
(* Verification model of gogama/flatgeobuf: the packed Hilbert R-Tree      *)
(* (construction, in-memory search, streaming Seek) and the Reader state   *)
(* machine over a byte stream.                                             *)
(***************************************************************************)
EXTENDS Integers, Sequences, FiniteSets, TLC

\* call, prt, srch, pc: one call of PackedRTree.Search or of Seek in progress.
VARIABLES call, prt, srch, pc

\* file: the stream a Reader reads; cursor: the position of the stream;
\* reader: the Reader struct; out: the last call made on the Reader and what
\* it returned; failed: the first non-recoverable error a call returned;
\* trace: the calls made so far, as long as they follow one of Scenarios;
\* hist: whether Close has been called, and whether an IndexSearch has
\* succeeded with no Rewind called since.
VARIABLES file, cursor, reader, out, failed, trace, hist

\* writer: the FileWriter struct; written: the pieces written to its stream,
\* in order; wout: the last call made on the FileWriter, the NumRefs and the
\* NodeSize of the tree if it is an Index call, and its error; wfailed: the
\* error of the first call in which a Write of the stream failed.
VARIABLES writer, written, wout, wfailed

searchVars == <<call, prt, srch, pc>>
readerVars == <<file, cursor, reader, out, failed, trace, hist>>
writerVars == <<writer, written, wout, wfailed>>
vars == <<call, prt, srch, pc, file, cursor, reader, out, failed, trace, hist,
          writer, written, wout, wfailed>>

\* ------------------------------------------------------------------------
\* Bounds of the model
\* ------------------------------------------------------------------------
MaxRefs == 4
MaxNodeSize == 3

\* ------------------------------------------------------------------------
\* Program constants
\* ------------------------------------------------------------------------
numNodeBytes == 40
\* Stand-in for math.Inf(1): larger than every coordinate of the model.
Inf == 1000

Min(a, b) == IF a < b THEN a ELSE b
Max(a, b) == IF a > b THEN a ELSE b

\* With(v, LAMBDA x : e) is e with x bound to v: a local variable assigned
\* once.
With(v, Op(_)) == Op(v)

\* ------------------------------------------------------------------------
\* Box
\* ------------------------------------------------------------------------
MkBox(x0, y0, x1, y1) == [XMin |-> x0, YMin |-> y0, XMax |-> x1, YMax |-> y1]

EmptyBox == MkBox(Inf, Inf, -Inf, -Inf)

\* The zero value of a Go node: Box{0,0,0,0}, Offset 0.
ZeroNode == [Box |-> MkBox(0, 0, 0, 0), Offset |-> 0]

\* Mutant of Expand: YMax of the receiver is left as it was.
ExpandNoYMax(b, c) ==
    [XMin |-> IF c.XMin < b.XMin THEN c.XMin ELSE b.XMin,
     YMin |-> IF c.YMin < b.YMin THEN c.YMin ELSE b.YMin,
     XMax |-> IF c.XMax > b.XMax THEN c.XMax ELSE b.XMax,
     YMax |-> b.YMax]

Expand(b, c) ==
    [XMin |-> IF c.XMin < b.XMin THEN c.XMin ELSE b.XMin,
     YMin |-> IF c.YMin < b.YMin THEN c.YMin ELSE b.YMin,
     XMax |-> IF c.XMax > b.XMax THEN c.XMax ELSE b.XMax,
     YMax |-> IF c.YMax > b.YMax THEN c.YMax ELSE b.YMax]

\* Mutant of intersects: boxes that only touch do not intersect.
intersectsOpen(b, o) ==
    IF b.XMax <= o.XMin THEN FALSE
    ELSE IF b.YMax <= o.YMin THEN FALSE
    ELSE IF b.XMin >= o.XMax THEN FALSE
    ELSE IF b.YMin >= o.YMax THEN FALSE
    ELSE TRUE

intersects(b, o) ==
    IF b.XMax < o.XMin THEN FALSE
    ELSE IF b.YMax < o.YMin THEN FALSE
    ELSE IF b.XMin > o.XMax THEN FALSE
    ELSE IF b.YMin > o.YMax THEN FALSE
    ELSE TRUE

\* ------------------------------------------------------------------------
\* Level geometry
\* ------------------------------------------------------------------------
RECURSIVE SumSeq(_)
SumSeq(s) == IF s = <<>> THEN 0 ELSE Head(s) + SumSeq(Tail(s))

\* The loop of levelify (and of size): the level sizes above a level of
\* nodesThisLevel nodes, up to and including the root.
RECURSIVE internalLevels(_, _)
internalLevels(nodesThisLevel, nodeSize) ==
    LET next == (nodesThisLevel + nodeSize - 1) \div nodeSize
    IN  IF next = 1 THEN <<next>>
        ELSE <<next>> \o internalLevels(next, nodeSize)

nodesPerLevel(numRefs, nodeSize) == <<numRefs>> \o internalLevels(numRefs, nodeSize)

totalNodes(numRefs, numInternal) == numRefs + numInternal

\* Mutant of levelify: the leaves occupy the first slots, the root the
\* last.
levelifyLeavesFirst(numRefs, nodeSize) ==
    With(nodesPerLevel(numRefs, nodeSize), LAMBDA npl :
    LET levelIndex(i) == SumSeq(SubSeq(npl, 1, i - 1))
    IN  [i \in 1..Len(npl) |->
            [start |-> levelIndex(i), end |-> levelIndex(i) + npl[i]]])

\* levelify: element l+1 of the result is the range of level l (leaves are
\* level 0, first; the root is last).
levelify(numRefs, nodeSize) ==
    With(nodesPerLevel(numRefs, nodeSize), LAMBDA npl :
    LET numNodes == totalNodes(numRefs, SumSeq(Tail(npl)))
        levelIndex(i) == numNodes - SumSeq(SubSeq(npl, 1, i))
    IN  [i \in 1..Len(npl) |->
            [start |-> levelIndex(i), end |-> levelIndex(i) + npl[i]]])

size(numRefs, nodeSize) ==
    totalNodes(numRefs, SumSeq(internalLevels(numRefs, nodeSize))) * numNodeBytes

\* ------------------------------------------------------------------------
\* Ticket bag: stack discipline and container/heap min-heap discipline.
\* A bag is a sequence of tickets; Go index i is element i+1.
\* ------------------------------------------------------------------------
Ticket(nodeIndex, level) == [nodeIndex |-> nodeIndex, level |-> level]

Swap(tq, i, j) == [tq EXCEPT ![i + 1] = tq[j + 1], ![j + 1] = tq[i + 1]]

\* Mutant of Less: the comparison reversed (a max-heap).
LessReversed(tq, i, j) == tq[i + 1].nodeIndex > tq[j + 1].nodeIndex

Less(tq, i, j) == tq[i + 1].nodeIndex < tq[j + 1].nodeIndex

\* Mutant of stackPush: the ticket replaces the bag.
stackPushLost(tq, t) == <<t>>

stackPush(tq, t) == Append(tq, t)

stackPop(tq) == [t |-> tq[Len(tq)], tq |-> SubSeq(tq, 1, Len(tq) - 1)]

\* container/heap up(j)
RECURSIVE up(_, _)
up(h, j) ==
    LET i == IF j = 0 THEN 0 ELSE (j - 1) \div 2
    IN  IF i = j \/ ~Less(h, j, i) THEN h ELSE up(Swap(h, i, j), i)

\* container/heap down(i0, n)
RECURSIVE down(_, _, _)
down(h, i, n) ==
    LET j1 == 2 * i + 1
    IN  IF j1 >= n THEN h
        ELSE LET j2 == j1 + 1
                 j == IF j2 < n /\ Less(h, j2, j1) THEN j2 ELSE j1
             IN  IF ~Less(h, j, i) THEN h ELSE down(Swap(h, i, j), j, n)

\* heap.Push: ticketBag.Push appends, then up(Len-1).
heapPush(tq, t) == up(Append(tq, t), Len(tq))

\* heap.Pop: swap first and last, down(0, n), then ticketBag.Pop (stackPop).
heapPop(tq) ==
    LET n == Len(tq) - 1
    IN  stackPop(down(Swap(tq, 0, n), 0, n))

\* ------------------------------------------------------------------------
\* packedRTree: noo, New, and the node array a well-formed index section
\* holds.  nodes is a sequence; node index i is element i+1.
\* ------------------------------------------------------------------------
noo(numRefs, nodeSize, streaming) ==
    With(levelify(numRefs, nodeSize), LAMBDA levels :
        [numRefs |-> numRefs, nodeSize |-> nodeSize, levels |-> levels,
         nodes |-> [i \in 1..levels[1].end |-> ZeroNode],
         streaming |-> streaming])

\* The union of the boxes of nodes[from .. to-1], starting from EmptyBox.
RECURSIVE expandRange(_, _, _, _)
expandRange(nodes, box, from, to) ==
    IF from >= to THEN box
    ELSE expandRange(nodes, Expand(box, nodes[from + 1].Box), from + 1, to)

\* New, the loop over the groups of one level.  parent is the node index the
\* pointer `parent` refers to: it is set once per level and every group of
\* the level is written through it.
RECURSIVE newGroups(_, _, _, _, _)
newGroups(nodes, nodeIndex, levelEnd, parent, nodeSize) ==
    IF ~(nodeIndex < levelEnd) THEN nodes
    ELSE LET groupEnd == Min(nodeIndex + nodeSize, levelEnd)
             box == expandRange(nodes, EmptyBox, nodeIndex, groupEnd)
         IN  newGroups([nodes EXCEPT ![parent + 1] = [Box |-> box, Offset |-> nodeIndex]],
                       groupEnd, levelEnd, parent, nodeSize)

\* New, the loop over the levels i = 0 .. len(levels)-2.
RECURSIVE newLevels(_, _, _, _)
newLevels(nodes, levels, i, nodeSize) ==
    IF ~(i < Len(levels) - 1) THEN nodes
    ELSE newLevels(newGroups(nodes, levels[i + 1].start, levels[i + 1].end,
                             levels[i + 2].start, nodeSize),
                   levels, i + 1, nodeSize)

New(refs, nodeSize) ==
    With(noo(Len(refs), nodeSize, FALSE), LAMBDA p :
    LET leaves == [i \in 1..Len(p.nodes) |->
                     IF i - 1 >= p.levels[1].start
                     THEN refs[i - p.levels[1].start]
                     ELSE p.nodes[i]]
    IN  [p EXCEPT !.nodes = newLevels(leaves, p.levels, 0, nodeSize)])

\* The k-th node (k from 0) of level l of a well-formed index over refs:
\* a leaf is the ref; an internal node holds the union of its children's
\* boxes and the node index of its first child.
RECURSIVE indexNode(_, _, _, _, _)
indexNode(refs, levels, nodeSize, l, k) ==
    IF l = 0 THEN refs[k + 1]
    ELSE LET below == levels[l]
             first == k * nodeSize
             last == Min(first + nodeSize, below.end - below.start) - 1
             boxes == [c \in 1..(last - first + 1) |->
                         indexNode(refs, levels, nodeSize, l - 1, first + c - 1)]
         IN  [Box |-> expandRange(boxes, EmptyBox, 0, Len(boxes)),
              Offset |-> below.start + first]

levelOf(levels, i) == CHOOSE l \in 0..(Len(levels) - 1) :
                          levels[l + 1].start <= i /\ i < levels[l + 1].end

\* The node array stored in the index section of a well-formed file.
indexNodes(refs, nodeSize) ==
    With(levelify(Len(refs), nodeSize), LAMBDA levels :
        [i \in 1..levels[1].end |->
            With(levelOf(levels, i - 1), LAMBDA l :
                indexNode(refs, levels, nodeSize, l, i - 1 - levels[l + 1].start))])

\* Unmarshal: the private structure with the stack discipline, its nodes
\* read from the stream.
Unmarshal(streamNodes, numRefs, nodeSize) ==
    [noo(numRefs, nodeSize, FALSE) EXCEPT !.nodes = streamNodes]

\* ------------------------------------------------------------------------
\* packedRTree.search
\* ------------------------------------------------------------------------
\* The for loop over pos in [pos, end): results appended, tickets pushed.
RECURSIVE scanNodes(_, _, _, _, _, _, _, _)
scanNodes(p, nodes, b, t, pos, end, q, r) ==
    IF ~(pos < end) THEN [q |-> q, r |-> r]
    ELSE LET n == nodes[pos + 1]
         IN  IF ~intersects(b, n.Box)
             THEN scanNodes(p, nodes, b, t, pos + 1, end, q, r)
             ELSE IF t.nodeIndex >= p.levels[1].start
             THEN scanNodes(p, nodes, b, t, pos + 1, end, q,
                            Append(r, [Offset |-> n.Offset,
                                       RefIndex |-> pos - p.levels[1].start]))
             ELSE scanNodes(p, nodes, b, t, pos + 1, end,
                            IF p.streaming
                            THEN heapPush(q, Ticket(n.Offset, t.level - 1))
                            ELSE stackPush(q, Ticket(n.Offset, t.level - 1)),
                            r)

\* The fetch closure of Seek: the relative seek it issues for node i.
fetchRel(startOffset, i, offset) == startOffset + i * numNodeBytes - offset

\* One iteration of the loop of search.  p is the packedRTree, stream the
\* index section being read (its nodes and start offset), st the loop state.
\* A ticket whose level is no index of p.levels is a Go index-out-of-range
\* panic.
searchIter(p, stream, b, st) ==
    With(IF p.streaming THEN heapPop(st.q) ELSE stackPop(st.q), LAMBDA popped :
    LET t == popped.t
    IN  IF t.level < 0 \/ t.level >= Len(p.levels)
        THEN [st EXCEPT !.q = popped.tq, !.status = "panic"]
        ELSE
        LET lv == p.levels[t.level + 1]
            end == IF lv.end < t.nodeIndex + p.nodeSize
                   THEN lv.end ELSE t.nodeIndex + p.nodeSize
            rel == fetchRel(stream.startOffset, t.nodeIndex, st.offset)
            nodes == IF p.streaming
                     THEN [i \in DOMAIN st.nodes |->
                             IF t.nodeIndex <= i - 1 /\ i - 1 < end
                             THEN stream.nodes[i] ELSE st.nodes[i]]
                     ELSE st.nodes
        IN  With(scanNodes(p, nodes, b, t, t.nodeIndex, end, popped.tq, st.r),
                 LAMBDA scanned :
            [nodes |-> nodes,
             q |-> scanned.q,
             r |-> scanned.r,
             fetched |-> IF p.streaming
                         THEN Append(st.fetched, [i |-> t.nodeIndex, j |-> end, rel |-> rel])
                         ELSE st.fetched,
             offset |-> IF p.streaming
                        THEN st.offset + rel + (end - t.nodeIndex) * numNodeBytes
                        ELSE st.offset,
             status |-> IF Len(scanned.q) = 0 THEN "done" ELSE "run"]))

\* Seek: the end offset of the index, and the skip to it after the search.
endOffset(startOffset, numRefs, nodeSize) == startOffset + size(numRefs, nodeSize)

\* Mutant of skipToEnd: the stream is left where the search stopped reading.
noSkipToEnd(endOff, offset) == offset

skipToEnd(endOff, offset) == IF endOff # offset THEN endOff ELSE offset

\* The state of search before its loop: the bag seeded with the root ticket.
searchInit(p, startOffset) ==
    [nodes |-> p.nodes,
     q |-> <<Ticket(0, Len(p.levels) - 1)>>,
     r |-> <<>>,
     fetched |-> <<>>,
     offset |-> startOffset,
     status |-> "run"]

\* search run to completion.
RECURSIVE searchRun(_, _, _, _)
searchRun(p, stream, b, st) ==
    IF st.status # "run" THEN st
    ELSE searchRun(p, stream, b, searchIter(p, stream, b, st))

\* ------------------------------------------------------------------------
\* Reader: states, errors, the stream
\* ------------------------------------------------------------------------
uninitialized == 0
invalid == 1
beforeMagic == 17
beforeHeader == 33
afterHeader == 34
beforeIndex == 49
afterIndex == 50
inData == 66
eof == 82

magicLen == 8

\* The smallest feature length readFeature accepts.
minFeatureLen == 4

\* Refs of features written one after the other: Offset is the position of
\* the feature's length prefix in the data section.
RefsOf(boxes, lens) ==
    [i \in 1..Len(boxes) |->
        [Box |-> boxes[i],
         Offset |-> SumSeq([j \in 1..(i - 1) |-> 4 + lens[j]])]]

\* The smallest header length Header accepts; files of the model carry it.
minHeaderLen == 4

\* r.state&invalid == invalid
isInvalid(state) == state % 2 = invalid

NoErr == "nil"
\* A Go panic leaving the call (not an error value).
GoPanic == "panic"
\* A call that never returns: the loop of size never reaches one node when
\* numRefs is 0.
GoHang == "hang"
ioEOF == "io.EOF"
ErrNoIndex == "no index"
ErrClosed == "closed"
errUnexpectedState == "unexpected state"
errHeaderNotCalled == "must call Header()"
errHeaderAlreadyCalled == "Header has already been called"
errReadPastIndex == "read position is past index"
errReadPastIndexSeeker == "read position is past index (reader is an io.Seeker though, try Rewind)"
errCantRewind == "can't rewind: reader is not an io.Seeker"
errMagic == "failed to read magic number"
errHeaderLen == "header length not big enough for FlatBuffer uoffset_t"
errFlatBuffers == "panic: flatbuffers"
errReadIndex == "failed to read index"
errSeekSearch == "failed to seek-search index"
errSkipIndex == "failed to skip index"
errFeatureLen == "feature length read error"
errFeatureRead == "failed to read feature"

\* The feature a read at a position holding no feature returns.
JunkFeature == 0 - 1

\* Layout of a file f = [seekable, count, nodeSize, boxes, lens, fault]:
\* magic, size-prefixed header, index (if nodeSize > 0), features.
headerStart(f) == magicLen
indexStart(f) == magicLen + 4 + minHeaderLen
indexSize(f) == IF f.nodeSize > 0 /\ f.count > 0 THEN size(f.count, f.nodeSize) ELSE 0
dataStart(f) == indexStart(f) + indexSize(f)
fileRefs(f) == RefsOf(f.boxes, f.lens)
dataSize(f) == SumSeq([k \in 1..Len(f.lens) |-> 4 + f.lens[k]])
\* The number of bytes the stream delivers before EOF.
fileLen(f) ==
    CASE f.fault = "shortMagic" -> 3
      [] f.fault = "truncated" -> dataStart(f) + dataSize(f) - 1
      [] OTHER -> dataStart(f) + dataSize(f)

\* io.ReadFull of n bytes at pos succeeds iff the stream holds them.
canRead(f, pos, n) == pos + n <= fileLen(f)
\* The stream position after a failed io.ReadFull at pos.
posAfterShortRead(f, pos) == Max(pos, fileLen(f))

\* The features (from 1) whose length prefix is at stream position pos.
featureAt(f, pos) ==
    {k \in 1..Len(f.boxes) : dataStart(f) + fileRefs(f)[k].Offset = pos}

\* ------------------------------------------------------------------------
\* Reader: helpers.  rd is the Reader struct; a helper returns the struct,
\* the stream position where it moves it, and the error it returns.
\* ------------------------------------------------------------------------
NewReader ==
    [state |-> uninitialized, err |-> NoErr, numFeatures |-> 0, nodeSize |-> 0,
     indexOffset |-> 0, dataOffset |-> 0, cachedIndex |-> "nil",
     featureIndex |-> 0, featureOffset |-> 0]

toState(rd, expected, to) ==
    IF rd.err # NoErr THEN [rd |-> rd, err |-> rd.err]
    ELSE IF rd.state = expected THEN [rd |-> [rd EXCEPT !.state = to], err |-> NoErr]
    ELSE IF isInvalid(rd.state) THEN [rd |-> rd, err |-> GoPanic]
    ELSE [rd |-> rd, err |-> errUnexpectedState]

toErr(rd, err) == [rd EXCEPT !.err = err]

indexStateErr(rd, state) ==
    IF state = uninitialized THEN errHeaderNotCalled
    ELSE IF state \in {afterIndex, inData, eof}
    THEN IF rd.featureIndex > 0 THEN errReadPastIndexSeeker ELSE errReadPastIndex
    ELSE GoPanic

\* saveGenericOffset applied to indexOffset / dataOffset: the offset is
\* queried from the stream only if none is saved and the stream is seekable.
saveIndexOffset(f, rd, pos) ==
    IF rd.indexOffset = 0 /\ f.seekable THEN [rd EXCEPT !.indexOffset = pos] ELSE rd

saveDataOffset(f, rd, pos) ==
    IF rd.dataOffset = 0 /\ f.seekable THEN [rd EXCEPT !.dataOffset = pos] ELSE rd

Res(rd, pos, err) == [rd |-> rd, pos |-> pos, err |-> err]

\* readFeature.  g is what the bytes at a position holding no feature decode
\* to: "err" (a length the stream cannot satisfy, or one below 4) or a junk
\* feature of the smallest length.  At position 0 the magic number decodes
\* to a length of 0x03626766, which no file of the model satisfies.
readFeature(f, rd, pos, g) ==
    IF ~canRead(f, pos, 4)
    THEN [rd |-> toErr(rd, errFeatureLen), pos |-> posAfterShortRead(f, pos),
          err |-> errFeatureLen, feature |-> JunkFeature]
    ELSE IF featureAt(f, pos) # {}
    THEN LET k == CHOOSE k \in featureAt(f, pos) : TRUE
             featureLen == f.lens[k]
         IN  IF ~canRead(f, pos + 4, featureLen)
             THEN [rd |-> toErr(rd, errFeatureRead), pos |-> posAfterShortRead(f, pos),
                   err |-> errFeatureRead, feature |-> JunkFeature]
             ELSE [rd |-> [rd EXCEPT !.featureIndex = @ + 1,
                                     !.featureOffset = @ + 4 + featureLen],
                   pos |-> pos + 4 + featureLen, err |-> NoErr, feature |-> k]
    ELSE IF g = "err" \/ pos = 0 \/ ~canRead(f, pos + 4, minFeatureLen)
    THEN [rd |-> toErr(rd, errFeatureRead), pos |-> posAfterShortRead(f, pos + 4),
          err |-> errFeatureRead, feature |-> JunkFeature]
    ELSE [rd |-> [rd EXCEPT !.featureIndex = @ + 1,
                            !.featureOffset = @ + 4 + minFeatureLen],
          pos |-> pos + 4 + minFeatureLen, err |-> NoErr, feature |-> JunkFeature]

\* skipIndex
skipIndex(f, rd, pos) ==
    With(toState(rd, afterHeader, beforeIndex), LAMBDA t :
        IF t.err # NoErr THEN Res(t.rd, pos, t.err)
        ELSE IF t.rd.nodeSize > 0
        THEN IF t.rd.dataOffset > 0
             THEN IF ~f.seekable THEN Res(t.rd, pos, GoPanic)
                  ELSE Res([t.rd EXCEPT !.state = afterIndex], t.rd.dataOffset, NoErr)
             ELSE IF f.seekable
             THEN With(saveIndexOffset(f, t.rd, pos), LAMBDA r1 :
                  LET r2 == [r1 EXCEPT !.dataOffset =
                                r1.indexOffset + size(r1.numFeatures, r1.nodeSize)]
                  IN  IF r1.numFeatures < 1 THEN Res(r1, pos, GoPanic)
                      ELSE Res([r2 EXCEPT !.state = afterIndex], r2.dataOffset, NoErr))
             ELSE IF t.rd.numFeatures < 1 THEN Res(t.rd, pos, GoPanic)
             ELSE With(size(t.rd.numFeatures, t.rd.nodeSize), LAMBDA indexBytes :
                      IF ~canRead(f, pos, indexBytes)
                      THEN Res(toErr(t.rd, errSkipIndex), posAfterShortRead(f, pos),
                               errSkipIndex)
                      ELSE Res([t.rd EXCEPT !.state = afterIndex], pos + indexBytes, NoErr))
        ELSE Res([t.rd EXCEPT !.state = afterIndex], pos, NoErr))

\* ------------------------------------------------------------------------
\* Reader.Header
\* ------------------------------------------------------------------------
Header(f, rd, pos) ==
    With(toState(rd, uninitialized, beforeMagic), LAMBDA t :
        IF t.err = GoPanic THEN Res(rd, pos, GoPanic)
        ELSE IF t.err # NoErr THEN Res(rd, pos, errHeaderAlreadyCalled)
        ELSE IF ~canRead(f, pos, magicLen)
        THEN Res(toErr(t.rd, errMagic), posAfterShortRead(f, pos), errMagic)
        ELSE LET r2 == [t.rd EXCEPT !.state = beforeHeader]
                 p2 == pos + magicLen + 4
             IN  IF f.fault = "headerLen" THEN Res(toErr(r2, errHeaderLen), p2, errHeaderLen)
                 ELSE IF f.fault = "headerPanic"
                 THEN Res(r2, p2 + minHeaderLen, errFlatBuffers)
                 ELSE Res([r2 EXCEPT !.numFeatures = f.count,
                                     !.nodeSize = f.nodeSize,
                                     !.state = afterHeader],
                          p2 + minHeaderLen, NoErr))

\* ------------------------------------------------------------------------
\* Reader.Index
\* ------------------------------------------------------------------------
\* What Unmarshal builds from the bytes at pos: the index of the file if
\* pos is the start of the index section, junk otherwise.
unmarshalled(f, pos) == IF pos = indexStart(f) THEN "index" ELSE "junk"

Index(f, rd, pos) ==
    With(toState(rd, afterHeader, beforeIndex), LAMBDA t :
        IF t.err = GoPanic THEN Res(rd, pos, GoPanic)
        ELSE IF t.err = errUnexpectedState THEN Res(rd, pos, indexStateErr(rd, rd.state))
        ELSE IF t.err # NoErr THEN Res(rd, pos, t.err)
        ELSE IF t.rd.nodeSize = 0 THEN Res([t.rd EXCEPT !.state = afterIndex], pos, NoErr)
        ELSE IF t.rd.cachedIndex # "nil"
        THEN IF ~f.seekable THEN Res(t.rd, pos, GoPanic)
             ELSE Res([t.rd EXCEPT !.state = afterIndex], t.rd.dataOffset, NoErr)
        ELSE LET p1 == IF t.rd.indexOffset > 0 THEN t.rd.indexOffset ELSE pos
             IN  With(saveIndexOffset(f, t.rd, p1), LAMBDA r1 :
                 IF t.rd.indexOffset > 0 /\ ~f.seekable THEN Res(t.rd, pos, GoPanic)
                 ELSE IF r1.numFeatures < 1 THEN Res(r1, p1, GoPanic)
                 ELSE
                 With(size(r1.numFeatures, r1.nodeSize), LAMBDA indexBytes :
                 IF ~canRead(f, p1, indexBytes)
                 THEN Res(toErr(r1, errReadIndex), posAfterShortRead(f, p1), errReadIndex)
                 ELSE Res([r1 EXCEPT !.cachedIndex = unmarshalled(f, p1),
                                     !.state = afterIndex],
                          p1 + indexBytes, NoErr))))

\* ------------------------------------------------------------------------
\* Reader.IndexSearch
\* ------------------------------------------------------------------------
\* sort.Slice(sr, ...): ascending Offset.
RECURSIVE sortResults(_)
sortResults(sr) ==
    IF sr = <<>> THEN <<>>
    ELSE LET m == CHOOSE k \in 1..Len(sr) :
                      \A j \in 1..Len(sr) : sr[k].Offset <= sr[j].Offset
         IN  <<sr[m]>> \o sortResults([j \in 1..(Len(sr) - 1) |->
                                          IF j < m THEN sr[j] ELSE sr[j + 1]])

\* PackedRTree.Search on the tree Unmarshal built from the index section.
cachedSearch(f, b) ==
    With([noo(f.count, f.nodeSize, FALSE) EXCEPT
             !.nodes = indexNodes(fileRefs(f), f.nodeSize)], LAMBDA p :
        searchRun(p, [nodes |-> p.nodes, startOffset |-> 0], b, searchInit(p, 0)))

\* packedrtree.Seek on the stream at pos.  At the start of the index section
\* it is the streaming search of the file's index.  Anywhere else the root
\* node is decoded from other bytes: the read fails at the end of the
\* stream, and otherwise g says what the bytes lead to: "err" (a failed
\* read or seek), "panic" (a child index outside the node array) or "junk"
\* (a root box the query misses: no results).  With numRefs = 0 the loop of
\* size, which Seek calls before noo validates the parameters, never ends.
seekSearch(f, rd, pos, b, g) ==
    IF rd.numFeatures < 1 THEN [err |-> GoHang, pos |-> pos, sr |-> <<>>]
    ELSE
    With(size(rd.numFeatures, rd.nodeSize), LAMBDA indexBytes :
        IF pos = indexStart(f)
        THEN With(noo(rd.numFeatures, rd.nodeSize, TRUE), LAMBDA p :
             LET st == searchRun(p, [nodes |-> indexNodes(fileRefs(f), f.nodeSize),
                                     startOffset |-> pos], b, searchInit(p, pos))
             IN  [err |-> NoErr, pos |-> pos + indexBytes, sr |-> st.r])
        ELSE IF ~canRead(f, pos, numNodeBytes)
        THEN [err |-> errSeekSearch, pos |-> posAfterShortRead(f, pos), sr |-> <<>>]
        ELSE IF g = "err"
        THEN [err |-> errSeekSearch, pos |-> pos + numNodeBytes, sr |-> <<>>]
        ELSE IF g = "panic"
        THEN [err |-> GoPanic, pos |-> pos + numNodeBytes, sr |-> <<>>]
        ELSE [err |-> NoErr, pos |-> pos + indexBytes, sr |-> <<>>])

\* The loop over the search results: skip to each result, read its feature.
RECURSIVE readResults(_, _, _, _, _, _, _)
readResults(f, rd, pos, sr, i, fs, g) ==
    IF i > Len(sr) THEN [rd |-> rd, pos |-> pos, err |-> NoErr, fs |-> fs]
    ELSE LET p1 == IF sr[i].Offset > rd.featureOffset
                   THEN pos + (sr[i].Offset - rd.featureOffset) ELSE pos
             r1 == [rd EXCEPT !.featureIndex = sr[i].RefIndex,
                              !.featureOffset = sr[i].Offset]
         IN  With(readFeature(f, r1, p1, g), LAMBDA rf :
             IF rf.err # NoErr
             THEN [rd |-> rf.rd, pos |-> rf.pos, err |-> rf.err, fs |-> <<>>]
             ELSE readResults(f, rf.rd, rf.pos, sr, i + 1, Append(fs, rf.feature), g))

\* A result of IndexSearch: seekStart is the offset Seek cached as the index
\* start (-1 if Seek did not run), dataPos the stream position when the
\* loop over the results starts (-1 if it did not).
SearchRes(rd, pos, err, fs, seekStart, dataPos) ==
    [rd |-> rd, pos |-> pos, err |-> err, fs |-> fs,
     seekStart |-> seekStart, dataPos |-> dataPos]

\* IndexSearch from the point where the results sr are known and the stream
\* is at p1.
indexSearchData(f, rd, p1, sr, seekStart, g) ==
    LET sorted == IF rd.cachedIndex # "nil" THEN sortResults(sr) ELSE sr
        r2 == [saveDataOffset(f, [rd EXCEPT !.state = afterIndex], p1)
                  EXCEPT !.state = inData]
    IN  With(readResults(f, r2, p1, sorted, 1, <<>>, g), LAMBDA rr :
        IF rr.err # NoErr THEN SearchRes(rr.rd, rr.pos, rr.err, <<>>, seekStart, p1)
        ELSE SearchRes([rr.rd EXCEPT !.state = eof], rr.pos, NoErr, rr.fs, seekStart, p1))

IndexSearch(f, rd, pos, b, g) ==
    With(toState(rd, afterHeader, beforeIndex), LAMBDA t :
        IF t.err = GoPanic THEN SearchRes(rd, pos, GoPanic, <<>>, -1, -1)
        ELSE IF t.err = errUnexpectedState
        THEN SearchRes(rd, pos, indexStateErr(rd, rd.state), <<>>, -1, -1)
        ELSE IF t.err # NoErr THEN SearchRes(rd, pos, t.err, <<>>, -1, -1)
        ELSE IF t.rd.nodeSize = 0
        THEN SearchRes([t.rd EXCEPT !.state = afterIndex], pos, ErrNoIndex, <<>>, -1, -1)
        ELSE IF f.seekable
        THEN IF t.rd.cachedIndex # "nil"
             THEN \* rs.Seek(r.dataOffset, io.SeekCurrent)
                  indexSearchData(f, t.rd, pos + t.rd.dataOffset,
                                  IF t.rd.cachedIndex = "index"
                                  THEN cachedSearch(f, b).r ELSE <<>>,
                                  -1, g)
             ELSE With(saveIndexOffset(f, t.rd, pos), LAMBDA r1 :
                  With(seekSearch(f, r1, pos, b, g), LAMBDA sk :
                      IF sk.err \in {GoPanic, GoHang}
                      THEN SearchRes(r1, sk.pos, sk.err, <<>>, pos, -1)
                      ELSE IF sk.err # NoErr
                      THEN SearchRes(toErr(r1, sk.err), sk.pos, sk.err, <<>>, pos, -1)
                      ELSE indexSearchData(f, r1, sk.pos, sk.sr, pos, g)))
        ELSE \* cachedIndex is nil here (otherwise textPanic): r.Index() is
             \* called in state beforeIndex; its toState(afterHeader,
             \* beforeIndex) reaches sanityCheckState.
             With(Index(f, t.rd, pos), LAMBDA ix :
                 IF t.rd.cachedIndex # "nil" THEN SearchRes(t.rd, pos, GoPanic, <<>>, -1, -1)
                 ELSE IF ix.err # NoErr
                 THEN SearchRes(ix.rd, ix.pos, ix.err, <<>>, -1, -1)
                 ELSE indexSearchData(f, ix.rd, ix.pos,
                                      IF ix.rd.cachedIndex = "index"
                                      THEN cachedSearch(f, b).r ELSE <<>>,
                                      -1, g)))

\* ------------------------------------------------------------------------
\* Reader.Data, Reader.DataAll, Reader.Rewind, Reader.Close
\* ------------------------------------------------------------------------
DataRes(rd, pos, err, fs) == [rd |-> rd, pos |-> pos, err |-> err, fs |-> fs]

\* The loop of Data reading n features.
RECURSIVE readFeatures(_, _, _, _, _, _)
readFeatures(f, rd, pos, n, fs, g) ==
    IF ~(Len(fs) < n) THEN DataRes(rd, pos, NoErr, fs)
    ELSE With(readFeature(f, rd, pos, g), LAMBDA rf :
             IF rf.err # NoErr THEN DataRes(rf.rd, rf.pos, rf.err, fs)
             ELSE readFeatures(f, rf.rd, rf.pos, n, Append(fs, rf.feature), g))

\* Data(p) with len(p) = lenP.
Data(f, rd, pos, lenP, g) ==
    IF rd.err # NoErr THEN DataRes(rd, pos, rd.err, <<>>)
    ELSE
    With(IF rd.state = afterHeader THEN skipIndex(f, rd, pos) ELSE Res(rd, pos, NoErr),
         LAMBDA sk :
        IF sk.err # NoErr THEN DataRes(sk.rd, sk.pos, sk.err, <<>>)
        ELSE
        With(IF sk.rd.state = afterIndex
             THEN [saveDataOffset(f, sk.rd, sk.pos) EXCEPT !.state = inData]
             ELSE sk.rd,
             LAMBDA r1 :
        LET rem == r1.numFeatures - r1.featureIndex
            n == IF lenP > rem THEN rem ELSE lenP
        IN  IF r1.state = eof THEN DataRes(r1, sk.pos, ioEOF, <<>>)
            ELSE IF r1.state = uninitialized THEN DataRes(r1, sk.pos, errHeaderNotCalled, <<>>)
            ELSE IF isInvalid(r1.state) THEN DataRes(r1, sk.pos, GoPanic, <<>>)
            ELSE With(readFeatures(f, r1, sk.pos, n, <<>>, g), LAMBDA rr :
                     IF rr.err # NoErr THEN rr
                     ELSE IF n = rem
                     THEN DataRes([rr.rd EXCEPT !.state = eof], rr.pos, ioEOF, rr.fs)
                     ELSE rr)))

DataAll(f, rd, pos, g) ==
    LET rem == rd.numFeatures - rd.featureIndex
    IN  IF rem < 0 THEN DataRes(rd, pos, GoPanic, <<>>)
        ELSE With(Data(f, rd, pos, rem, g), LAMBDA d :
                 IF d.err # NoErr /\ d.err # ioEOF THEN d
                 ELSE IF Len(d.fs) # rem THEN DataRes(d.rd, d.pos, GoPanic, d.fs)
                 ELSE DataRes(d.rd, d.pos, NoErr, d.fs))

\* Mutant of Rewind: a successful Rewind seeks to the index at once.
RewindEager(f, rd, pos) ==
    IF rd.err # NoErr THEN Res(rd, pos, rd.err)
    ELSE IF rd.state = afterHeader THEN Res(rd, pos, NoErr)
    ELSE IF isInvalid(rd.state) THEN Res(rd, pos, GoPanic)
    ELSE IF rd.state < afterHeader THEN Res(rd, pos, errHeaderNotCalled)
    ELSE IF rd.indexOffset = 0 THEN Res(rd, pos, errCantRewind)
    ELSE Res([rd EXCEPT !.state = afterHeader, !.featureIndex = 0, !.featureOffset = 0],
             rd.indexOffset, NoErr)

Rewind(f, rd, pos) ==
    IF rd.err # NoErr THEN Res(rd, pos, rd.err)
    ELSE IF rd.state = afterHeader THEN Res(rd, pos, NoErr)
    ELSE IF isInvalid(rd.state) THEN Res(rd, pos, GoPanic)
    ELSE IF rd.state < afterHeader THEN Res(rd, pos, errHeaderNotCalled)
    ELSE IF rd.indexOffset = 0 THEN Res(rd, pos, errCantRewind)
    ELSE Res([rd EXCEPT !.state = afterHeader, !.featureIndex = 0, !.featureOffset = 0],
             pos, NoErr)

\* Close: returns r.err when r.err is nil; otherwise sets ErrClosed and
\* closes the stream (an io.Closer whose Close succeeds).  closes is the
\* number of times the call closed the stream.
Close(f, rd, pos) ==
    IF rd.err = NoErr THEN [rd |-> rd, pos |-> pos, err |-> NoErr, closes |-> 0]
    ELSE [rd |-> [rd EXCEPT !.err = ErrClosed], pos |-> pos, err |-> NoErr,
          closes |-> 1]

\* ------------------------------------------------------------------------
\* Inputs of the search specification
\* ------------------------------------------------------------------------
RefBoxes == {MkBox(1, 1, 2, 2), MkBox(3, 3, 4, 4), MkBox(2, 1, 3, 2)}

QueryBoxes == {MkBox(1, 1, 1, 1), MkBox(4, 4, 5, 5), MkBox(0, 0, 5, 5), EmptyBox}

BoxLists(n) == UNION {[1..k -> RefBoxes] : k \in 1..n}

\* order: the features are written in the order of the refs ("file"), or in
\* the opposite order ("reversed"), as when IndexData is given features that
\* are not Hilbert-sorted.
SearchCalls ==
    [kind : {"Search", "Seek", "Unmarshal"},
     boxes : BoxLists(MaxRefs),
     nodeSize : 2..MaxNodeSize,
     b : QueryBoxes,
     startOffset : {0, 20},
     order : {"file", "reversed"}]

\* The refs of features written in the given order.
RefsIn(boxes, lens, order) ==
    With(RefsOf(boxes, lens), LAMBDA inOrder :
        [i \in 1..Len(boxes) |->
            [Box |-> boxes[i],
             Offset |-> IF order = "file" THEN inOrder[i].Offset
                        ELSE inOrder[Len(boxes) + 1 - i].Offset]])

callRefs == RefsIn(call.boxes, [i \in 1..Len(call.boxes) |-> minFeatureLen],
                   call.order)

callStream == [nodes |-> indexNodes(callRefs, call.nodeSize),
               startOffset |-> call.startOffset]

Idle == [status |-> "idle"]

InitSearch ==
    /\ call \in SearchCalls
    /\ prt = Idle
    /\ srch = Idle
    /\ pc = "start"
    /\ file = Idle
    /\ cursor = 0
    /\ reader = Idle
    /\ out = Idle
    /\ failed = NoErr
    /\ trace = <<>>
    /\ hist = Idle
    /\ writer = Idle
    /\ written = <<>>
    /\ wout = Idle
    /\ wfailed = NoErr

\* New(refs, nodeSize) followed by the entry of PackedRTree.Search(b).
NewAndSearch ==
    /\ pc = "start"
    /\ call.kind = "Search"
    /\ prt' = New(callRefs, call.nodeSize)
    /\ srch' = searchInit(prt', 0)
    /\ pc' = "loop"
    /\ UNCHANGED <<call, readerVars, writerVars>>

\* Seek up to the call of search: the start offset is cached and the
\* packedRTree is built with the heap discipline and the fetch closure.
SeekEnter ==
    /\ pc = "start"
    /\ call.kind = "Seek"
    /\ prt' = noo(Len(call.boxes), call.nodeSize, TRUE)
    /\ srch' = searchInit(prt', call.startOffset)
    /\ pc' = "loop"
    /\ UNCHANGED <<call, readerVars, writerVars>>

\* Unmarshal(r, numRefs, nodeSize) followed by the entry of
\* PackedRTree.Search(b): the nodes are read from the stream in one piece.
UnmarshalAndSearch ==
    /\ pc = "start"
    /\ call.kind = "Unmarshal"
    /\ prt' = Unmarshal(callStream.nodes, Len(call.boxes), call.nodeSize)
    /\ srch' = searchInit(prt', 0)
    /\ pc' = "loop"
    /\ UNCHANGED <<call, readerVars, writerVars>>

\* One iteration of the loop of search.
SearchStep ==
    /\ pc = "loop"
    /\ srch' = searchIter(prt, callStream, call.b, srch)
    /\ pc' = CASE srch'.status = "run" -> "loop"
               [] srch'.status = "panic" -> "panic"
               [] OTHER -> IF call.kind = "Seek" THEN "searched" ELSE "done"
    /\ UNCHANGED <<call, prt, readerVars, writerVars>>

\* Seek after search: skip to the end of the index.
SeekSkipToEnd ==
    /\ pc = "searched"
    /\ srch' = [srch EXCEPT !.offset =
                    skipToEnd(endOffset(call.startOffset, Len(call.boxes),
                                        call.nodeSize), srch.offset)]
    /\ pc' = "done"
    /\ UNCHANGED <<call, prt, readerVars, writerVars>>

NextSearch ==
    NewAndSearch \/ SeekEnter \/ UnmarshalAndSearch \/ SearchStep \/ SeekSkipToEnd

SpecSearch == InitSearch /\ [][NextSearch]_vars

\* ------------------------------------------------------------------------
\* The reader specification: one Reader on one stream, any calls in any
\* order.
\* ------------------------------------------------------------------------
MaxFeatures == 3
MaxBuf == 2
\* Calls are made while the stream position is at most MaxPos.
MaxPos == 300

FeatureBoxes == {MkBox(1, 1, 2, 2), MkBox(3, 3, 4, 4)}

ReaderQueries == {MkBox(3, 3, 4, 4), MkBox(0, 0, 5, 5), EmptyBox}

\* Feature k has a payload of 4 or 6 bytes.
featureLens(n) == [k \in 1..n |-> minFeatureLen + 2 * (k % 2)]

Faults == {"none", "shortMagic", "headerLen", "headerPanic", "truncated"}

\* Files with an index: the header count is the number of features.
IndexedFiles ==
    {[seekable |-> sk, count |-> Len(bs), nodeSize |-> 2, boxes |-> bs,
      lens |-> featureLens(Len(bs)), fault |-> ft] :
        sk \in BOOLEAN, ft \in Faults,
        bs \in UNION {[1..n -> FeatureBoxes] : n \in 1..MaxFeatures}}

\* Files without index: the header count is the number of features, or 0
\* (unknown).
PlainFilesOf(n) ==
    {[seekable |-> sk, count |-> c, nodeSize |-> 0,
      boxes |-> [k \in 1..n |-> MkBox(1, 1, 2, 2)],
      lens |-> featureLens(n), fault |-> ft] :
        sk \in BOOLEAN, c \in {0, n},
        ft \in IF n = 0 THEN Faults \ {"truncated"} ELSE Faults}

PlainFiles == UNION {PlainFilesOf(n) : n \in 0..MaxFeatures}

\* Files whose header has featuresCount = 0 together with indexNodeSize = 2;
\* what follows the header is read as features.
EmptyIndexFiles ==
    {[seekable |-> sk, count |-> 0, nodeSize |-> 2,
      boxes |-> [k \in 1..n |-> MkBox(1, 1, 2, 2)],
      lens |-> featureLens(n), fault |-> "none"] :
        sk \in BOOLEAN, n \in 0..1}

Files == IndexedFiles \cup PlainFiles \cup EmptyIndexFiles

\* What the bytes at a position that holds no record decode to.
Junk == {"err", "panic", "junk"}

NonRecoverable ==
    {errMagic, errHeaderLen, errFlatBuffers, errReadIndex, errSeekSearch,
     errSkipIndex, errFeatureLen, errFeatureRead}

\* The call sequences followed from the construction of the Reader.
Scenarios ==
    {<<"Header", "IndexSearch", "Rewind", "IndexSearch">>,
     <<"Header", "Index", "Rewind", "Index", "Data">>}

OffScenario == <<"other">>

IsPrefix(s, t) == Len(s) <= Len(t) /\ SubSeq(t, 1, Len(s)) = s

InitReader ==
    /\ file \in Files
    /\ cursor = 0
    /\ reader = NewReader
    /\ out = [op |-> "NewReader", arg |-> 0, err |-> NoErr, fs |-> <<>>,
              seekStart |-> -1, dataPos |-> -1, closes |-> 0]
    /\ failed = NoErr
    /\ trace = <<>>
    /\ hist = [closed |-> FALSE, searched |-> FALSE]
    /\ writer = Idle
    /\ written = <<>>
    /\ wout = Idle
    /\ wfailed = NoErr
    /\ call = Idle
    /\ prt = Idle
    /\ srch = Idle
    /\ pc = "reader"

\* A call can be made: the program has not panicked and is not stuck in a
\* call.
CanCall == pc = "reader" /\ out.err \notin {GoPanic, GoHang} /\ cursor <= MaxPos

\* The call op(arg) returned r.
Returned(op, arg, r) ==
    /\ reader' = r.rd
    /\ cursor' = r.pos
    /\ out' = [op |-> op, arg |-> arg, err |-> r.err,
               fs |-> IF "fs" \in DOMAIN r THEN r.fs ELSE <<>>,
               seekStart |-> IF "seekStart" \in DOMAIN r THEN r.seekStart ELSE -1,
               dataPos |-> IF "dataPos" \in DOMAIN r THEN r.dataPos ELSE -1,
               closes |-> IF "closes" \in DOMAIN r THEN r.closes ELSE 0]
    /\ failed' = IF failed = NoErr /\ r.err \in NonRecoverable THEN r.err ELSE failed
    /\ trace' = IF \E sc \in Scenarios : IsPrefix(Append(trace, op), sc)
                THEN Append(trace, op) ELSE OffScenario
    /\ hist' = [closed |-> hist.closed \/ op = "Close",
                searched |-> IF op = "IndexSearch" /\ r.err = NoErr THEN TRUE
                             ELSE IF op = "Rewind" THEN FALSE
                             ELSE hist.searched]
    /\ UNCHANGED <<file, searchVars, writerVars>>

CallHeader ==
    /\ CanCall
    /\ Returned("Header", 0, Header(file, reader, cursor))

CallIndex ==
    /\ CanCall
    /\ Returned("Index", 0, Index(file, reader, cursor))

CallIndexSearch ==
    /\ CanCall
    /\ \E b \in ReaderQueries, g \in Junk :
          Returned("IndexSearch", b, IndexSearch(file, reader, cursor, b, g))

CallData ==
    /\ CanCall
    /\ \E lenP \in 0..MaxBuf, g \in Junk :
          Returned("Data", lenP, Data(file, reader, cursor, lenP, g))

CallDataAll ==
    /\ CanCall
    /\ \E g \in Junk :
          Returned("DataAll", 0, DataAll(file, reader, cursor, g))

CallRewind ==
    /\ CanCall
    /\ Returned("Rewind", 0, Rewind(file, reader, cursor))

CallClose ==
    /\ CanCall
    /\ Returned("Close", 0, Close(file, reader, cursor))

NextReader ==
    \/ CallHeader \/ CallIndex \/ CallIndexSearch \/ CallData
    \/ CallDataAll \/ CallRewind \/ CallClose

SpecReader == InitReader /\ [][NextReader]_vars

IntersectingRefs ==
    {[Offset |-> callRefs[i].Offset, RefIndex |-> i - 1] :
        i \in {i \in 1..Len(callRefs) : intersects(call.b, callRefs[i].Box)}}

\* C2: New(refs, nodeSize).Search(q) returns, as a set and each element
\* once, exactly the refs whose boxes intersect q.
C2_SearchExact ==
    (call.kind = "Search" /\ pc \in {"done", "panic"}) =>
        /\ pc = "done"
        /\ {srch.r[k] : k \in 1..Len(srch.r)} = IntersectingRefs
        /\ Len(srch.r) = Cardinality(IntersectingRefs)

\* C12: when Seek returns without error, for any query box, the stream
\* position is indexStart + 40 * N: indexStart the position at the time of
\* the call, N the number of nodes the index section holds.
C12_SeekEndsAtIndexEnd ==
    (call.kind = "Seek" /\ pc = "done") =>
        srch.offset = call.startOffset + numNodeBytes * Len(callStream.nodes)

\* Witness of C12: a finished Seek that matched nothing and stopped reading
\* before the last node of the index.
C12_Witness ==
    /\ call.kind = "Seek"
    /\ pc = "done"
    /\ srch.r = <<>>
    /\ srch.fetched[Len(srch.fetched)].j < Len(callStream.nodes)
    /\ srch.offset = call.startOffset + numNodeBytes * Len(callStream.nodes)

ResultSet(r) == {r[k] : k \in 1..Len(r)}

\* What Unmarshal followed by Search returns on the index of the call.
InMemoryResults ==
    With(Unmarshal(callStream.nodes, Len(call.boxes), call.nodeSize), LAMBDA p :
        searchRun(p, callStream, call.b, searchInit(p, 0)))

\* What Seek returns on the index of the call.
StreamingResults ==
    With(noo(Len(call.boxes), call.nodeSize, TRUE), LAMBDA p :
        searchRun(p, callStream, call.b, searchInit(p, call.startOffset)))

C14_SeekResultsAscending ==
    (call.kind = "Seek" /\ pc = "done") =>
        \A k \in 1..(Len(srch.r) - 1) : srch.r[k].Offset <= srch.r[k + 1].Offset

\* ------------------------------------------------------------------------
\* Claims on the reader specification.  A step of the specification is one
\* call: out' is the call and its result, reader and cursor the Reader and
\* the stream position it started from, reader' and cursor' where it left
\* them.
\* ------------------------------------------------------------------------
\* The errors that report a call made in the wrong state.
StateErrors ==
    {errUnexpectedState, errHeaderNotCalled, errHeaderAlreadyCalled,
     errReadPastIndex, errReadPastIndexSeeker}

\* The features of f whose boxes intersect b, in file order.
ExpectedFeatures(f, b) ==
    SelectSeq([k \in 1..Len(f.boxes) |-> k], LAMBDA k : intersects(b, f.boxes[k]))

\* A call made from a state that does not admit it, with no error latched.
Gated ==
    /\ reader.err = NoErr
    /\ \/ out'.op = "Header" /\ reader.state # uninitialized
       \/ out'.op \in {"Index", "IndexSearch"} /\ reader.state # afterHeader
       \/ out'.op = "Data" /\ reader.state \notin {afterHeader, afterIndex, inData, eof}

\* C3: a call made from a state that does not admit it returns a state
\* error, consumes no bytes, leaves the state and the feature cursor
\* unchanged and latches no error.
C3_Gating ==
    [][Gated =>
          /\ out'.err \in StateErrors
          /\ cursor' = cursor
          /\ reader'.state = reader.state
          /\ reader'.featureIndex = reader.featureIndex
          /\ reader'.err = NoErr]_vars

\* C4: once a call has returned a non-recoverable error, every later call
\* of Header, Index, IndexSearch, Data, DataAll or Rewind returns that same
\* error and changes neither the reader state nor the stream position.
C4_Latching ==
    [][(/\ failed # NoErr
        /\ reader.err # ErrClosed
        /\ out'.op \in {"Header", "Index", "IndexSearch", "Data", "DataAll", "Rewind"})
       =>
          /\ out'.err = failed
          /\ reader'.state = reader.state
          /\ cursor' = cursor]_vars

\* C5: with featuresCount = n > 0 a Data call returns the next
\* min(len(buf), remaining) features in file order, the reader enters EOF
\* exactly in the call that returns the n-th feature, and a Data call made
\* in EOF returns no feature and io.EOF.
C5_DataInOrder ==
    [][(/\ file.fault = "none"
        /\ file.count > 0
        /\ out'.op = "Data"
        /\ reader.err = NoErr
        /\ reader.state \in {afterHeader, afterIndex, inData, eof})
       =>
          IF reader.state = eof
          THEN out'.fs = <<>> /\ out'.err = ioEOF
          ELSE LET n == Min(out'.arg, file.count - reader.featureIndex)
               IN  /\ out'.err \in {NoErr, ioEOF}
                   /\ out'.fs = [i \in 1..n |-> reader.featureIndex + i]
                   /\ reader'.state = eof <=> reader.featureIndex + n = file.count]_vars

\* C6: on a seekable stream with an index and no cached tree, the second
\* search of Header, IndexSearch(q1), Rewind, IndexSearch(q2) succeeds,
\* starts reading at the index-start offset and returns exactly the
\* features whose boxes intersect q2.
C6_StreamingSearchAfterRewind ==
    [][(/\ file.fault = "none"
        /\ file.seekable
        /\ file.nodeSize > 0
        /\ trace = <<"Header", "IndexSearch", "Rewind">>
        /\ out'.op = "IndexSearch")
       =>
          /\ out'.err = NoErr
          /\ out'.seekStart = indexStart(file)
          /\ out'.fs = ExpectedFeatures(file, out'.arg)]_vars

\* C7: IndexSearch in AfterHeader on a non-seekable stream with an index
\* caches the index, returns exactly the features whose boxes intersect
\* the query, and leaves the reader in EOF.
C7_NonSeekableSearch ==
    [][(/\ file.fault = "none"
        /\ ~file.seekable
        /\ file.nodeSize > 0
        /\ reader.err = NoErr
        /\ reader.state = afterHeader
        /\ out'.op = "IndexSearch")
       =>
          /\ out'.err = NoErr
          /\ reader'.cachedIndex = "index"
          /\ out'.fs = ExpectedFeatures(file, out'.arg)
          /\ reader'.state = eof]_vars

\* C8: on a seekable stream, IndexSearch with a cached index has the
\* stream at the start of the data section before it reads the first
\* result, and returns the features at the result offsets in ascending
\* order.
C8_CachedSearchAtDataStart ==
    [][(/\ file.fault = "none"
        /\ file.seekable
        /\ reader.err = NoErr
        /\ reader.state = afterHeader
        /\ reader.cachedIndex = "index"
        /\ out'.op = "IndexSearch")
       =>
          /\ out'.dataPos = dataStart(file)
          /\ out'.err = NoErr
          /\ out'.fs = ExpectedFeatures(file, out'.arg)]_vars

\* C9: on a seekable stream with an index a successful Index leaves the
\* index-start and data-start offsets cached; the second Index of Header,
\* Index, Rewind, Index returns the cached tree with the stream at the
\* start of the data section, and a following Data returns the first
\* feature.
C9_IndexCachesOffsets ==
    [][/\ (/\ file.seekable
           /\ file.nodeSize > 0
           /\ out'.op = "Index"
           /\ out'.err = NoErr)
          =>
             /\ reader'.indexOffset = indexStart(file)
             /\ reader'.dataOffset = reader'.indexOffset + indexSize(file)
       /\ (/\ file.seekable
           /\ file.nodeSize > 0
           /\ file.fault = "none"
           /\ trace = <<"Header", "Index", "Rewind">>
           /\ out'.op = "Index")
          =>
             /\ out'.err = NoErr
             /\ reader'.cachedIndex = "index"
             /\ cursor' = dataStart(file)
       /\ (/\ file.seekable
           /\ file.nodeSize > 0
           /\ file.fault = "none"
           /\ trace = <<"Header", "Index", "Rewind", "Index">>
           /\ out'.op = "Data"
           /\ out'.arg >= 1)
          =>
             /\ out'.err \in {NoErr, ioEOF}
             /\ Len(out'.fs) >= 1
             /\ out'.fs[1] = 1]_vars

\* C10: with featuresCount = 0 and indexNodeSize = 0, DataAll returns every
\* feature of the data section, Data returns the next features up to the
\* length of its buffer, and no feature is returned without error only
\* when the data section is empty.
C10_UnknownCount ==
    [][(/\ file.fault = "none"
        /\ file.count = 0
        /\ file.nodeSize = 0
        /\ reader.err = NoErr
        /\ reader.state = afterHeader
        /\ out'.op \in {"Data", "DataAll"})
       =>
          /\ out'.err \in {NoErr, ioEOF}
          /\ out'.op = "DataAll" => out'.fs = [k \in 1..Len(file.boxes) |-> k]
          /\ out'.op = "Data" =>
                out'.fs = [k \in 1..Min(out'.arg, Len(file.boxes)) |-> k]
          /\ out'.fs = <<>> =>
                Len(file.boxes) = 0 \/ (out'.op = "Data" /\ out'.arg = 0)]_vars

\* C11: a successful IndexSearch leaves the reader in EOF, and until Rewind
\* is called every Data or DataAll call returns no features (Data with
\* io.EOF, DataAll an empty list without error) and reads nothing from the
\* stream.
C11_EofAfterSearch ==
    [][/\ (out'.op = "IndexSearch" /\ out'.err = NoErr) => reader'.state = eof
       /\ (/\ hist.searched
           /\ ~hist.closed
           /\ out'.op \in {"Data", "DataAll"})
          =>
             /\ out'.fs = <<>>
             /\ cursor' = cursor
             /\ out'.err = IF out'.op = "Data" THEN ioEOF ELSE NoErr]_vars

\* C15: a successful Rewind performs no read or seek on the stream, sets
\* the state to AfterHeader and the feature cursor to (0, 0), and leaves
\* the cached index and the cached index-start and data-start offsets
\* unchanged.
C15_RewindFrame ==
    [][(out'.op = "Rewind" /\ out'.err = NoErr)
       =>
          /\ cursor' = cursor
          /\ reader'.state = afterHeader
          /\ reader'.featureIndex = 0
          /\ reader'.featureOffset = 0
          /\ reader'.cachedIndex = reader.cachedIndex
          /\ reader'.indexOffset = reader.indexOffset
          /\ reader'.dataOffset = reader.dataOffset]_vars

\* Witness of C15: a Rewind has succeeded with the index cached, both
\* offsets cached and the stream left past the start of the data section.
C15_Witness ==
    /\ pc = "reader"
    /\ out.op = "Rewind"
    /\ out.err = NoErr
    /\ reader.state = afterHeader
    /\ reader.cachedIndex = "index"
    /\ reader.indexOffset > 0
    /\ reader.dataOffset > 0
    /\ cursor > dataStart(file)

\* The states from AfterHeader on.
FromAfterHeader == {afterHeader, afterIndex, inData, eof}

\* C16: on a seekable stream Rewind succeeds from AfterHeader, AfterIndex,
\* InData and EOF, with or without an index in the file; on a non-seekable
\* stream past AfterHeader it returns an error and leaves the state and the
\* feature cursor unchanged.
C16_RewindWhenSeekable ==
    [][/\ (/\ file.seekable
           /\ reader.err = NoErr
           /\ reader.state \in FromAfterHeader
           /\ out'.op = "Rewind")
          => out'.err = NoErr
       /\ (/\ ~file.seekable
           /\ reader.err = NoErr
           /\ reader.state \in FromAfterHeader \ {afterHeader}
           /\ out'.op = "Rewind")
          =>
             /\ out'.err \notin {NoErr, GoPanic, GoHang}
             /\ reader'.state = reader.state
             /\ reader'.featureIndex = reader.featureIndex
             /\ reader'.featureOffset = reader.featureOffset]_vars

\* C17: the first Close call on a reader, in any state and with or without
\* a latched error, marks the reader closed and closes the stream once;
\* every later Close call returns ErrClosed and does not close the stream.
C17_CloseOnce ==
    [][out'.op = "Close"
       =>
          IF ~hist.closed
          THEN reader'.err = ErrClosed /\ out'.closes = 1
          ELSE out'.err = ErrClosed /\ out'.closes = 0]_vars

\* C18: after Close has been called, every Header, Index, IndexSearch,
\* Data, DataAll and Rewind call returns ErrClosed and neither reads nor
\* seeks.
C18_ClosedOps ==
    [][(/\ hist.closed
        /\ out'.op \in {"Header", "Index", "IndexSearch", "Data", "DataAll", "Rewind"})
       =>
          /\ out'.err = ErrClosed
          /\ cursor' = cursor]_vars

\* C19: whatever the stream holds, Header, Index, IndexSearch and Data
\* return a value or an error: none of them panics or runs forever.
C19_NoPanicNoHang ==
    [][out'.op \in {"Header", "Index", "IndexSearch", "Data"}
       => out'.err \notin {GoPanic, GoHang}]_vars

\* ------------------------------------------------------------------------
\* FileWriter: errors, the stream, the helpers of stateful
\* ------------------------------------------------------------------------
errWriterHeaderAlreadyCalled == "Header() has already been called"
errIndexNodeSizeOne == "index node size may not be 1"
errWriteMagic == "failed to write magic number"
errWriteHeader == "failed to write header"
errFeatureCountMismatch == "feature count mismatch"
errNodeSizeMismatch == "node size mismatch"
errMarshal == "index write error"
errIndexFeature == "failed to index feature"
errWriteFeature == "failed to write feature"
errHeaderNodeSizeZero == "header node size 0 indicates no index"
errIndexNotWritten == "header requires index but no index written"
errWritePastIndex == "write position is past index"
errAllWritten == "all features indicated in header already written"
errTruncated == "truncated file"

NewFileWriter ==
    [state |-> uninitialized, err |-> NoErr, numFeatures |-> 0, nodeSize |-> 0,
     featureIndex |-> 0]

\* A piece of the stream: the magic number, a size-prefixed header table
\* (with its featuresCount and indexNodeSize), an index (with its numRefs
\* and nodeSize) or a size-prefixed feature; body is the node array of an
\* index, the table of a feature; whole is FALSE when only some of its bytes
\* were written.
Piece(kind, numRefs, nodeSize, body) ==
    [kind |-> kind, numRefs |-> numRefs, nodeSize |-> nodeSize, body |-> body,
     whole |-> TRUE]

\* w.Write(bytes of piece).  how is what the stream does: "ok", "none" (an
\* error, no byte written) or "part" (an error after some bytes).
Write(stream, piece, how) ==
    [stream |-> IF how = "none" THEN stream
                ELSE Append(stream, [piece EXCEPT !.whole = (how = "ok")]),
     some |-> how # "none",
     failed |-> how # "ok",
     io |-> how # "ok"]

\* writeSizePrefixedTable: a table that is not a size-prefixed root table
\* ("bad") is rejected before anything is written.
writeSizePrefixedTable(stream, table, piece, how) ==
    IF table = "bad"
    THEN [stream |-> stream, some |-> FALSE, failed |-> TRUE, io |-> FALSE]
    ELSE Write(stream, piece, how)

\* What the stream does at the k-th Write of a call: the call's fail says
\* which Write fails, and how.
Outcome(fail, k) == IF fail.at = k THEN fail.how ELSE "ok"

stateful_toState(w, expected, to) ==
    IF w.err # NoErr THEN [w |-> w, err |-> w.err]
    ELSE IF w.state = expected THEN [w |-> [w EXCEPT !.state = to], err |-> NoErr]
    ELSE IF isInvalid(w.state) THEN [w |-> w, err |-> GoPanic]
    ELSE [w |-> w, err |-> errUnexpectedState]

stateful_toErr(w, err) == [w EXCEPT !.err = err]

WRes(w, stream, err) == [w |-> w, written |-> stream, err |-> err]

\* The result of a call that returns the error of a failed step; io tells
\* whether the step failed in a Write of the stream.
WFail(w, stream, err, io) == [w |-> w, written |-> stream, err |-> err, io |-> io]

\* ------------------------------------------------------------------------
\* FileWriter.Header, Index, IndexData, Data, Close
\* ------------------------------------------------------------------------
FileWriter_Header(w, stream, h, fail) ==
    IF h.nodeSize = 1 THEN WRes(w, stream, errIndexNodeSizeOne)
    ELSE
    With(stateful_toState(w, uninitialized, beforeMagic), LAMBDA t :
        IF t.err = GoPanic THEN WRes(w, stream, GoPanic)
        ELSE IF t.err = errUnexpectedState
        THEN WRes(w, stream, errWriterHeaderAlreadyCalled)
        ELSE IF t.err # NoErr THEN WRes(w, stream, t.err)
        ELSE
        With(Write(stream, Piece("magic", 0, 0, <<>>), Outcome(fail, 1)), LAMBDA m :
            IF m.failed
            THEN WFail(stateful_toErr(t.w, errWriteMagic), m.stream, errWriteMagic,
                       m.io)
            ELSE
            With(writeSizePrefixedTable(m.stream, h.table,
                                        Piece("header", h.count, h.nodeSize, <<>>),
                                        Outcome(fail, 2)), LAMBDA hw :
                IF hw.failed
                THEN WFail(stateful_toErr([t.w EXCEPT !.state = beforeHeader],
                                          errWriteHeader),
                           hw.stream, errWriteHeader, hw.io)
                ELSE WRes([t.w EXCEPT !.numFeatures = h.count,
                                      !.nodeSize = h.nodeSize,
                                      !.state = afterHeader],
                          hw.stream, NoErr))))

canWriteIndex(w) ==
    IF w.err # NoErr THEN w.err
    ELSE IF w.state = uninitialized THEN errHeaderNotCalled
    ELSE IF w.state = afterHeader
    THEN IF w.nodeSize = 0 THEN errHeaderNodeSizeZero ELSE NoErr
    ELSE IF w.state \in {afterIndex, inData, eof} THEN errWritePastIndex
    ELSE GoPanic

\* Mutant of canWriteData: data may follow the header although the header
\* announces an index.
canWriteDataNoIndex(w) ==
    IF w.err # NoErr THEN w.err
    ELSE IF w.state = uninitialized THEN errHeaderNotCalled
    ELSE IF w.state = afterHeader THEN NoErr
    ELSE IF w.state \in {afterIndex, inData} THEN NoErr
    ELSE IF w.state = eof THEN errAllWritten
    ELSE GoPanic

\* Mutant of canWriteData: data may be written after the last feature the
\* header announces.
canWriteDataPastEof(w) ==
    IF w.err # NoErr THEN w.err
    ELSE IF w.state = uninitialized THEN errHeaderNotCalled
    ELSE IF w.state = afterHeader
    THEN IF w.nodeSize > 0 THEN errIndexNotWritten ELSE NoErr
    ELSE IF w.state \in {afterIndex, inData, eof} THEN NoErr
    ELSE GoPanic

canWriteData(w) ==
    IF w.err # NoErr THEN w.err
    ELSE IF w.state = uninitialized THEN errHeaderNotCalled
    ELSE IF w.state = afterHeader
    THEN IF w.nodeSize > 0 THEN errIndexNotWritten ELSE NoErr
    ELSE IF w.state \in {afterIndex, inData} THEN NoErr
    ELSE IF w.state = eof THEN errAllWritten
    ELSE GoPanic

\* Mutant of Marshal: only the leaf nodes are written.
MarshalLeaves(stream, index, how) ==
    Write(stream,
          Piece("index", index.numRefs, index.nodeSize,
                SubSeq(index.nodes, Len(index.nodes) - index.numRefs + 1,
                       Len(index.nodes))),
          how)

\* PackedRTree.Marshal on a little-endian build: the node array is written
\* as it is in memory, in one Write.
Marshal(stream, index, how) ==
    Write(stream, Piece("index", index.numRefs, index.nodeSize, index.nodes), how)

\* Mutant of FileWriter.index: a mismatch leaves the writer in beforeIndex.
FileWriter_indexNoRestore(w, stream, index, how) ==
    IF w.numFeatures # index.numRefs
    THEN WRes([w EXCEPT !.state = beforeIndex], stream, errFeatureCountMismatch)
    ELSE IF w.nodeSize # index.nodeSize
    THEN WRes([w EXCEPT !.state = beforeIndex], stream, errNodeSizeMismatch)
    ELSE With(Marshal(stream, index, how), LAMBDA m :
             IF m.failed
             THEN WFail(stateful_toErr([w EXCEPT !.state = beforeIndex], errMarshal),
                        m.stream, errMarshal, m.io)
             ELSE WRes([w EXCEPT !.state = afterIndex], m.stream, NoErr))

\* FileWriter.index: index is the tree to marshal.
FileWriter_index(w, stream, index, how) ==
    IF w.numFeatures # index.numRefs
    THEN WRes([w EXCEPT !.state = afterHeader], stream, errFeatureCountMismatch)
    ELSE IF w.nodeSize # index.nodeSize
    THEN WRes([w EXCEPT !.state = afterHeader], stream, errNodeSizeMismatch)
    ELSE With(Marshal(stream, index, how), LAMBDA m :
             IF m.failed
             THEN WFail(stateful_toErr([w EXCEPT !.state = beforeIndex], errMarshal),
                        m.stream, errMarshal, m.io)
             ELSE WRes([w EXCEPT !.state = afterIndex], m.stream, NoErr))

FileWriter_Index(w, stream, index, fail) ==
    With(canWriteIndex(w), LAMBDA e :
        IF e # NoErr THEN WRes(w, stream, e)
        ELSE FileWriter_index(w, stream, index, Outcome(fail, 1)))

\* Data: f is the feature, [table, id, size, box, hilbert].
FileWriter_Data(w, stream, f, how) ==
    With(canWriteData(w), LAMBDA e :
        IF e # NoErr THEN WRes(w, stream, e)
        ELSE
        With(writeSizePrefixedTable(stream, f.table, Piece("feature", 0, 0, f), how),
             LAMBDA fw :
            IF fw.failed
            THEN WFail(IF fw.some
                       THEN stateful_toErr([w EXCEPT !.state = inData], errWriteFeature)
                       ELSE [w EXCEPT !.state = inData],
                       fw.stream, errWriteFeature, fw.io)
            ELSE LET w1 == [w EXCEPT !.state = inData, !.featureIndex = @ + 1]
                 IN  IF w1.featureIndex = w1.numFeatures /\ w1.numFeatures > 0
                     THEN WRes([w1 EXCEPT !.state = eof], fw.stream, NoErr)
                     ELSE WRes(w1, fw.stream, NoErr)))

\* IndexDataPtr, the loop writing the data: feature i is the (i + 1)-th
\* Write of the call.
RECURSIVE writeData(_, _, _, _, _)
writeData(w, stream, data, i, fail) ==
    IF i > Len(data) THEN WRes(w, stream, NoErr)
    ELSE With(FileWriter_Data(w, stream, data[i], Outcome(fail, i + 1)), LAMBDA d :
             IF d.err # NoErr THEN d
             ELSE writeData(d.w, d.written, data, i + 1, fail))

\* tableSize: the value of the table's length prefix, the number of bytes
\* that follow the prefix.
tableSize(f) == f.size

featureBounds(f) == f.box

\* IndexDataPtr, the loop building the refs from feature i on: the ref of a
\* feature has its box and the offset counted so far.
RECURSIVE dataRefs(_, _, _)
dataRefs(data, i, offset) ==
    IF i > Len(data) THEN <<>>
    ELSE <<[Box |-> featureBounds(data[i]), Offset |-> offset]>>
         \o dataRefs(data, i + 1, offset + tableSize(data[i]))

\* HilbertSort: the refs in descending order of the Hilbert number of their
\* boxes; hilbert[i] is the number of refs[i], no two are equal.
HilbertSort(refs, hilbert) ==
    [i \in 1..Len(refs) |->
        refs[CHOOSE j \in 1..Len(refs) :
                Cardinality({k \in 1..Len(refs) : hilbert[k] > hilbert[j]}) = i - 1]]

\* IndexData / IndexDataPtr: data is the list of the features.  New panics
\* on an empty list.
FileWriter_IndexData(w, stream, data, fail) ==
    With(canWriteIndex(w), LAMBDA e :
        IF e # NoErr THEN WRes(w, stream, e)
        ELSE IF \E i \in 1..Len(data) : data[i].table = "bad"
        THEN WRes(w, stream, errIndexFeature)
        ELSE IF Len(data) < 1 THEN WRes(w, stream, GoPanic)
        ELSE With(HilbertSort(dataRefs(data, 1, 0),
                              [i \in 1..Len(data) |-> data[i].hilbert]),
                  LAMBDA refs :
             With(FileWriter_index(w, stream, New(refs, w.nodeSize), Outcome(fail, 1)),
                  LAMBDA ix :
                 IF ix.err # NoErr THEN ix
                 ELSE writeData(ix.w, ix.written, data, 1, fail))))

\* stateful.close on a stream that is an io.Closer whose Close succeeds.
stateful_close(w) ==
    IF w.err = ErrClosed THEN [w |-> w, err |-> ErrClosed]
    ELSE [w |-> [w EXCEPT !.err = ErrClosed], err |-> NoErr]

\* Mutant of Close: any difference between the features written and the
\* header's count is a truncation.
FileWriter_CloseStrict(w, stream) ==
    With(stateful_close(w), LAMBDA c :
        IF c.err # NoErr THEN WRes(c.w, stream, c.err)
        ELSE IF c.w.featureIndex # c.w.numFeatures THEN WRes(c.w, stream, errTruncated)
        ELSE WRes(c.w, stream, NoErr))

FileWriter_Close(w, stream) ==
    With(stateful_close(w), LAMBDA c :
        IF c.err # NoErr THEN WRes(c.w, stream, c.err)
        ELSE IF c.w.featureIndex < c.w.numFeatures THEN WRes(c.w, stream, errTruncated)
        ELSE WRes(c.w, stream, NoErr))

\* ------------------------------------------------------------------------
\* The writer specification: one FileWriter on one stream, any calls in any
\* order, any Write of the stream failing.
\* ------------------------------------------------------------------------
\* Calls are made while the stream holds at most MaxWritten pieces.
MaxWritten == 5
\* The largest featuresCount of a header and the longest IndexData list.
MaxCount == 2

Tables == {"ok", "bad"}

HeaderTables == [count : 0..MaxCount, nodeSize : 0..2, table : Tables]

\* Feature id: a table that is or is not a size-prefixed root table, with
\* a payload of 4 or 6 bytes and its own bounding box; hilbert is the Hilbert
\* number HilbertSort gives its box.
Feature(table, id, hilbert) ==
    [table |-> table, id |-> id, size |-> minFeatureLen + 2 * (id % 2),
     box |-> MkBox(id, id, id + 1, id + 1), hilbert |-> hilbert]

\* The features given to Data.
Features == {Feature(t, id, 0) : t \in Tables, id \in 1..MaxCount}

\* The trees given to Index: over the features 1..n written in this order.
Indexes ==
    {New(RefsOf([i \in 1..n |-> Feature("ok", i, 0).box],
                [i \in 1..n |-> Feature("ok", i, 0).size]), k) :
        n \in 1..MaxCount, k \in 2..3}

Injective(s) == \A i, j \in DOMAIN s : s[i] = s[j] => i = j

\* The lists given to IndexData: the features 1..n with distinct Hilbert
\* numbers in any order, and the features 1..n some of whose tables are not
\* size-prefixed root tables.
DataLists ==
    UNION {{[i \in 1..n |-> Feature("ok", i, hs[i])] :
               hs \in {s \in [1..n -> 1..n] : Injective(s)}}
           \cup {[i \in 1..n |-> Feature(ts[i], i, i)] : ts \in [1..n -> Tables]} :
           n \in 0..MaxCount}

\* What the stream does during a call that makes up to n Writes: all of
\* them succeed, or one of them fails.
WriteFails(n) ==
    {[at |-> 0, how |-> "ok"]} \cup [at : 1..n, how : {"none", "part"}]

InitWriter ==
    /\ writer = NewFileWriter
    /\ written = <<>>
    /\ wout = [op |-> "NewFileWriter", numRefs |-> 0, nodeSize |-> 0, err |-> NoErr]
    /\ wfailed = NoErr
    /\ pc = "writer"
    /\ call = Idle
    /\ prt = Idle
    /\ srch = Idle
    /\ file = Idle
    /\ cursor = 0
    /\ reader = Idle
    /\ out = Idle
    /\ failed = NoErr
    /\ trace = <<>>
    /\ hist = Idle

CanCallWriter == pc = "writer" /\ wout.err # GoPanic /\ Len(written) <= MaxWritten

\* The call op returned r; numRefs and nodeSize are those of the tree given
\* to Index, 0 for the other calls.
WriterReturned(op, numRefs, nodeSize, r) ==
    /\ writer' = r.w
    /\ written' = r.written
    /\ wout' = [op |-> op, numRefs |-> numRefs, nodeSize |-> nodeSize, err |-> r.err]
    /\ wfailed' = IF wfailed = NoErr /\ "io" \in DOMAIN r /\ r.io THEN r.err
                  ELSE wfailed
    /\ UNCHANGED <<searchVars, readerVars>>

WriteHeader ==
    /\ CanCallWriter
    /\ \E h \in HeaderTables, fail \in WriteFails(2) :
          WriterReturned("Header", 0, 0,
                         FileWriter_Header(writer, written, h, fail))

WriteIndex ==
    /\ CanCallWriter
    /\ \E index \in Indexes, fail \in WriteFails(1) :
          WriterReturned("Index", index.numRefs, index.nodeSize,
                         FileWriter_Index(writer, written, index, fail))

WriteIndexData ==
    /\ CanCallWriter
    /\ \E data \in DataLists :
          \E fail \in WriteFails(IF \E i \in 1..Len(data) : data[i].table = "bad"
                                 THEN 0 ELSE Len(data) + 1) :
              WriterReturned("IndexData", 0, 0,
                             FileWriter_IndexData(writer, written, data, fail))

WriteData ==
    /\ CanCallWriter
    /\ \E f \in Features, fail \in WriteFails(1) :
          WriterReturned("Data", 0, 0,
                         FileWriter_Data(writer, written, f, Outcome(fail, 1)))

WriteClose ==
    /\ CanCallWriter
    /\ WriterReturned("Close", 0, 0, FileWriter_Close(writer, written))

NextWriter == WriteHeader \/ WriteIndex \/ WriteIndexData \/ WriteData \/ WriteClose

SpecWriter == InitWriter /\ [][NextWriter]_vars

\* ------------------------------------------------------------------------
\* Claims on the writer specification
\* ------------------------------------------------------------------------
\* The kind of the i-th piece of a stream that starts as a file with the
\* header hd does.
KindAt(i, hd) ==
    IF i = 1 THEN "magic"
    ELSE IF i = 2 THEN "header"
    ELSE IF i = 3 /\ hd.nodeSize > 0 THEN "index"
    ELSE "feature"

\* C20: whatever FileWriter calls are made, the stream holds a prefix of:
\* the magic number, one size-prefixed header, the index of the header's
\* featuresCount and indexNodeSize if and only if indexNodeSize > 0, then
\* size-prefixed features.  No feature comes before the header, none before
\* the index when indexNodeSize > 0, and magic, header and index are written
\* at most once.
C20_WrittenIsFilePrefix ==
    /\ \A i \in 1..(Len(written) - 1) : written[i].whole
    /\ \A i \in 1..Len(written) :
          /\ written[i].kind = KindAt(i, IF Len(written) >= 2 THEN written[2] ELSE written[1])
          /\ written[i].kind = "index" =>
                /\ written[i].numRefs = written[2].numRefs
                /\ written[i].nodeSize = written[2].nodeSize

\* Witness of C20: header, index and all the features the header announces
\* have been written, and further calls were made after the last feature.
C20_Witness ==
    /\ pc = "writer"
    /\ Len(written) = 3 + MaxCount
    /\ written[2].nodeSize > 0
    /\ written[3].kind = "index"
    /\ writer.state = eof
    /\ wout.op = "Data"
    /\ wout.err = errAllWritten

\* The number of features wholly written to a stream.
NumFeatures(stream) ==
    Cardinality({i \in 1..Len(stream) : stream[i].kind = "feature" /\ stream[i].whole})

\* The stream holds a whole header; its featuresCount is positive.
HeaderCountPositive(stream) ==
    /\ Len(stream) >= 2
    /\ stream[2].kind = "header"
    /\ stream[2].whole
    /\ stream[2].numRefs > 0

\* C21: once a header with featuresCount = n > 0 is written, whatever Data
\* and IndexData calls are made, at most n features are written, the writer
\* is in state eof exactly when n features have been written, and a Data
\* call made in state eof returns an error and writes nothing.
C21_AtMostCountFeatures ==
    [][
       HeaderCountPositive(written') =>
          /\ NumFeatures(written') <= written'[2].numRefs
          /\ writer'.state = eof <=> NumFeatures(written') = written'[2].numRefs
          /\ (writer.state = eof /\ wout'.op = "Data") =>
                /\ wout'.err # NoErr
                /\ written' = written
      ]_vars

\* Witness of C21: a header without index announced MaxCount features, all
\* of them were written, and one more Data call was refused.
C21_Witness ==
    /\ pc = "writer"
    /\ HeaderCountPositive(written)
    /\ written[2].nodeSize = 0
    /\ NumFeatures(written) = MaxCount
    /\ writer.state = eof
    /\ writer.err = NoErr
    /\ wout.op = "Data"
    /\ wout.err = errAllWritten

\* The Index call of a step meets the conditions for writing the index: no
\* error latched, state afterHeader, the header's indexNodeSize positive,
\* the tree's NumRefs and NodeSize those of the header.
IndexAccepted ==
    /\ writer.err = NoErr
    /\ writer.state = afterHeader
    /\ written[2].nodeSize > 0
    /\ wout'.numRefs = written[2].numRefs
    /\ wout'.nodeSize = written[2].nodeSize

\* C22: an Index call that does not meet these conditions writes no byte,
\* returns an error and leaves the writer's state and latched error as they
\* were; after a rejection in afterHeader with no error latched, an Index
\* call with a tree matching the header writes the index and succeeds.
C22_IndexRejectionFrame ==
    [][
       (wout'.op = "Index" /\ ~IndexAccepted) =>
          /\ written' = written
          /\ wout'.err # NoErr
          /\ writer'.state = writer.state
          /\ writer'.err = writer.err
          /\ (writer.err = NoErr /\ writer.state = afterHeader) =>
                \A index \in Indexes :
                   (/\ index.numRefs = written[2].numRefs
                    /\ index.nodeSize = written[2].nodeSize) =>
                      With(FileWriter_Index(writer', written', index,
                                            [at |-> 0, how |-> "ok"]), LAMBDA r :
                          /\ r.err = NoErr
                          /\ r.w.state = afterIndex
                          /\ Len(r.written) = 3
                          /\ r.written[3].kind = "index")
      ]_vars

\* Witness of C22: in afterHeader, with a header announcing an index, an
\* Index call was rejected for a tree with another number of refs.
C22_Witness ==
    /\ pc = "writer"
    /\ wout.op = "Index"
    /\ wout.err = errFeatureCountMismatch
    /\ writer.state = afterHeader
    /\ writer.err = NoErr
    /\ written[2].nodeSize > 0
    /\ written[2].numRefs > 0
    /\ wout.numRefs # written[2].numRefs

\* The leaf nodes of an index piece, in order.
Leaves(piece) ==
    SubSeq(piece.body, Len(piece.body) - piece.numRefs + 1, Len(piece.body))

\* An IndexData call has just returned without error: the stream holds the
\* magic number, the header, the index and the features of the call.
IndexDataDone == pc = "writer" /\ wout.op = "IndexData" /\ wout.err = NoErr

\* C23: IndexData writes the features in the order of the leaves of the
\* index it has just written: the i-th feature of the data section is the
\* feature whose box leaf i carries.
C23_DataInLeafOrder ==
    IndexDataDone =>
        \A i \in 1..written[3].numRefs :
            written[3 + i].body.box = Leaves(written[3])[i].Box

\* The position, from the start of the data section, of the length prefix
\* of the i-th feature of the stream.
PrefixPosition(stream, i) ==
    SumSeq([j \in 1..(i - 1) |-> 4 + stream[3 + j].body.size])

\* C24: after IndexData every leaf's Offset is the position, from the
\* start of the data section, of the length prefix of the feature whose
\* box the leaf carries.
C24_LeafOffsetIsPrefixPosition ==
    IndexDataDone =>
        \A l \in 1..written[3].numRefs, i \in 1..written[3].numRefs :
            written[3 + i].body.box = Leaves(written[3])[l].Box =>
                Leaves(written[3])[l].Offset = PrefixPosition(written, i)

\* C25: once a Write of the stream has failed inside a call, with or without
\* bytes written, the writer holds the error of that call, and every later
\* Header, Index, IndexData or Data call on the writer, as long as it is not
\* closed, returns that error and writes nothing.
C25_WriteFailureLatches ==
    [][
       /\ (wfailed' # NoErr /\ wout'.op # "Close" /\ writer.err # ErrClosed) =>
             writer'.err = wfailed'
       /\ (wfailed # NoErr /\ wout'.op # "Close" /\ writer.err # ErrClosed) =>
             /\ wout'.err = wfailed
             /\ written' = written
      ]_vars

\* C26: the first Close returns the truncation error if and only if a whole
\* header with a positive featuresCount was written and fewer features than
\* it announces were written; otherwise (count met, count 0, no header) it
\* returns nil.
C26_CloseTruncation ==
    [][
       (wout'.op = "Close" /\ writer.err # ErrClosed) =>
          wout'.err = IF /\ HeaderCountPositive(written)
                         /\ NumFeatures(written) < written[2].numRefs
                      THEN errTruncated
                      ELSE NoErr
      ]_vars

\* Witness of C26: the first Close, after one feature of the two the header
\* announces, returned the truncation error.
C26_Witness ==
    /\ pc = "writer"
    /\ wout.op = "Close"
    /\ wout.err = errTruncated
    /\ HeaderCountPositive(written)
    /\ written[2].numRefs = 2
    /\ NumFeatures(written) = 1

\* ------------------------------------------------------------------------
\* Writer to reader round trip
\* ------------------------------------------------------------------------
\* The pieces of a kind, in stream order.
PiecesOf(stream, kind) == SelectSeq(stream, LAMBDA p : p.kind = kind)

\* The file a Reader finds in a stream of whole pieces: the header's
\* fields, the features' boxes and lengths in stream order, and the nodes
\* stored in the index section.
FileOf(stream, seekable) ==
    [seekable |-> seekable,
     count |-> stream[2].numRefs,
     nodeSize |-> stream[2].nodeSize,
     boxes |-> [k \in 1..Len(PiecesOf(stream, "feature")) |->
                  PiecesOf(stream, "feature")[k].body.box],
     lens |-> [k \in 1..Len(PiecesOf(stream, "feature")) |->
                 PiecesOf(stream, "feature")[k].body.size],
     fault |-> "none",
     nodes |-> IF PiecesOf(stream, "index") = <<>> THEN <<>>
               ELSE PiecesOf(stream, "index")[1].body]

\* Header, Index and Data with room for all the features the header
\* announces, on a new Reader at the start of f.
ReadBack(f) ==
    With(Header(f, NewReader, 0), LAMBDA h :
        With(Index(f, h.rd, h.pos), LAMBDA ix :
            [header |-> h, index |-> ix,
             data |-> Data(f, ix.rd, ix.pos, f.count, "err")]))

\* The writer has produced a whole file: the header, the index if the
\* header announces one, and as many features as the header announces.
CompleteFile ==
    /\ pc = "writer"
    /\ Len(written) >= 2
    /\ \A i \in 1..Len(written) : written[i].whole
    /\ written[2].nodeSize > 0 => (Len(written) >= 3 /\ written[3].kind = "index")
    /\ NumFeatures(written) = written[2].numRefs

C28_NoIndexSearch ==
    [][
       /\ (/\ out'.op = "IndexSearch"
           /\ file.nodeSize = 0
           /\ reader.state = afterHeader
           /\ reader.err = NoErr) =>
             /\ out'.err = ErrNoIndex
             /\ cursor' = cursor
             /\ reader'.state = afterIndex
             /\ reader'.err = NoErr
       /\ (/\ out.op = "IndexSearch"
           /\ out.err = ErrNoIndex
           /\ out'.op = "Data"
           /\ out'.arg >= 1
           /\ file.fault = "none"
           /\ Len(file.boxes) >= 1) =>
             /\ out'.err \in {NoErr, ioEOF}
             /\ Len(out'.fs) >= 1
             /\ out'.fs[1] = 1
      ]_vars

\* ------------------------------------------------------------------------
\* The level specification: levelify and Size applied to one numRefs and
\* one nodeSize.
\* ------------------------------------------------------------------------
MaxLevelRefs == 40
MaxLevelNodeSize == 5

LevelCalls ==
    [kind : {"levelify"}, numRefs : 1..MaxLevelRefs, nodeSize : 2..MaxLevelNodeSize]

InitLevels ==
    /\ call \in LevelCalls
    /\ prt = Idle
    /\ srch = Idle
    /\ pc = "start"
    /\ file = Idle
    /\ cursor = 0
    /\ reader = Idle
    /\ out = Idle
    /\ failed = NoErr
    /\ trace = <<>>
    /\ hist = Idle
    /\ writer = Idle
    /\ written = <<>>
    /\ wout = Idle
    /\ wfailed = NoErr

CallLevelify ==
    /\ pc = "start"
    /\ call.kind = "levelify"
    /\ prt' = [levels |-> levelify(call.numRefs, call.nodeSize)]
    /\ pc' = "levels"
    /\ UNCHANGED <<call, srch, readerVars, writerVars>>

CallSize ==
    /\ pc = "levels"
    /\ srch' = [size |-> size(call.numRefs, call.nodeSize)]
    /\ pc' = "sized"
    /\ UNCHANGED <<call, prt, readerVars, writerVars>>

NextLevels == CallLevelify \/ CallSize

SpecLevels == InitLevels /\ [][NextLevels]_vars

\* The least q with q * d >= a.
Ceil(a, d) == CHOOSE q \in 0..a : q * d >= a /\ (q = 0 \/ (q - 1) * d < a)

RECURSIVE Power(_, _)
Power(k, i) == IF i = 0 THEN 1 ELSE k * Power(k, i - 1)

\* The sum of ceil(n / k^i) for i = from .., up to and including the first
\* term equal to 1.
RECURSIVE CeilSum(_, _, _)
CeilSum(n, k, from) ==
    IF Ceil(n, Power(k, from)) = 1 THEN 1
    ELSE Ceil(n, Power(k, from)) + CeilSum(n, k, from + 1)

\* C29: for numRefs n >= 1 and nodeSize k >= 2, levelify gives contiguous
\* ranges: level 0 has n nodes in the last n slots, each next level has
\* ceil(previous / k) nodes and ends where the level below starts, the last
\* level is [0, 1); and Size(n, k) = 40 * levels[0].end
\* = 40 * (n + sum of ceil(n / k^i), i = 1 .. first term equal to 1).
C29_LevelStructure ==
    (pc = "sized") =>
        LET levels == prt.levels
            n == call.numRefs
            k == call.nodeSize
            count(l) == levels[l].end - levels[l].start
        IN  /\ count(1) = n
            /\ levels[1].end = SumSeq([l \in 1..Len(levels) |-> count(l)])
            /\ \A l \in 1..(Len(levels) - 1) :
                  /\ count(l + 1) = Ceil(count(l), k)
                  /\ levels[l].start = levels[l + 1].end
            /\ Len(levels) >= 2
            /\ levels[Len(levels)] = [start |-> 0, end |-> 1]
            /\ srch.size = 40 * levels[1].end
            /\ srch.size = 40 * (n + CeilSum(n, k, 1))
            /\ n = 1 => srch.size = 40 * 2

\* Witness of C29: a tree of four levels whose one but last level is not
\* full.
C29_Witness ==
    /\ pc = "sized"
    /\ Len(prt.levels) = 4
    /\ call.numRefs % call.nodeSize # 0
    /\ prt.levels[3].end - prt.levels[3].start < call.nodeSize

\* ------------------------------------------------------------------------
\* The size specification: size(numRefs, nodeSize) step by step, in the
\* integer arithmetic of Go at a reduced word width.
\* ------------------------------------------------------------------------
\* The number of bits of int.  int64 has as many bits (a 64-bit platform)
\* or twice as many (a 32-bit platform).
IntBits == 8
\* The largest nodeSize of the calls.
MaxWideNodeSize == 4

\* The value a signed integer of the given number of bits holds after an
\* operation whose exact result is x.
WrapBits(x, bits) ==
    ((x + Power(2, bits - 1)) % Power(2, bits)) - Power(2, bits - 1)

MaxOfBits(bits) == Power(2, bits - 1) - 1

\* Integer division of Go: the quotient is truncated toward zero.
Quo(a, b) == IF a >= 0 THEN a \div b ELSE 0 - ((0 - a) \div b)

errTotalNodesOverflow == "total node count overflows int"
errSizeOverflow == "index size overflows int64"

SizeCalls ==
    [kind : {"size"}, numRefs : 1..MaxOfBits(IntBits), nodeSize : 2..MaxWideNodeSize,
     int64Bits : {IntBits, 2 * IntBits}]

InitSize ==
    /\ call \in SizeCalls
    /\ prt = [nodesThisLevel |-> call.numRefs, numInternal |-> 0]
    /\ srch = Idle
    /\ pc = "loop"
    /\ file = Idle
    /\ cursor = 0
    /\ reader = Idle
    /\ out = Idle
    /\ failed = NoErr
    /\ trace = <<>>
    /\ hist = Idle
    /\ writer = Idle
    /\ written = <<>>
    /\ wout = Idle
    /\ wfailed = NoErr

\* One iteration of the loop of size.
SizeLoop ==
    /\ pc = "loop"
    /\ LET nodesThisLevel ==
               Quo(WrapBits(WrapBits(prt.nodesThisLevel + call.nodeSize, IntBits) - 1,
                            IntBits),
                   call.nodeSize)
       IN  /\ prt' = [nodesThisLevel |-> nodesThisLevel,
                      numInternal |-> WrapBits(prt.numInternal + nodesThisLevel, IntBits)]
           /\ pc' = IF nodesThisLevel = 1 THEN "total" ELSE "loop"
    /\ UNCHANGED <<call, srch, readerVars, writerVars>>

\* totalNodes in the arithmetic of int.
totalNodesInt(numRefs, numInternal) ==
    IF numInternal > WrapBits(MaxOfBits(IntBits) - numRefs, IntBits)
    THEN [n |-> 0, err |-> errTotalNodesOverflow]
    ELSE [n |-> WrapBits(numRefs + numInternal, IntBits), err |-> NoErr]

\* size after its loop: the total node count, the test of the byte count,
\* the product.
SizeTotal ==
    /\ pc = "total"
    /\ LET t == totalNodesInt(call.numRefs, prt.numInternal)
       IN  srch' = IF t.err # NoErr THEN [size |-> 0, err |-> t.err]
                   ELSE IF t.n > Quo(MaxOfBits(call.int64Bits), numNodeBytes)
                   THEN [size |-> 0, err |-> errSizeOverflow]
                   ELSE [size |-> WrapBits(t.n * numNodeBytes, call.int64Bits),
                         err |-> NoErr]
    /\ pc' = "done"
    /\ UNCHANGED <<call, prt, readerVars, writerVars>>

NextSize == SizeLoop \/ SizeTotal

\* A call that can take a step takes it.
SpecSize == InitSize /\ [][NextSize]_vars /\ WF_vars(NextSize)

\* The number of nodes of a tree over the refs of the call.
ExactNodes == call.numRefs + CeilSum(call.numRefs, call.nodeSize, 1)

\* C30: for every numRefs from 1 to the largest int and every nodeSize
\* >= 2, size returns; it returns an error when the number of nodes does
\* not fit an int or 40 times that number does not fit an int64, and a size
\* it returns without error is 40 times the number of nodes.
C30_SizeOverflow ==
    /\ <>(pc = "done")
    /\ [](pc = "done" =>
             /\ (\/ ExactNodes > MaxOfBits(IntBits)
                 \/ numNodeBytes * ExactNodes > MaxOfBits(call.int64Bits)) =>
                   srch.err # NoErr
             /\ srch.err = NoErr => srch.size = numNodeBytes * ExactNodes)

\* ------------------------------------------------------------------------
\* Size, New, Unmarshal and Seek on parameters outside their precondition.
\* ------------------------------------------------------------------------
\* The largest numRefs and nodeSize of the calls.
MaxParamRefs == 6
MaxParamNodeSize == 3

errEmptyTree == "empty tree not allowed (num refs must be > 0)"
errNodeSizeTooSmall == "node size must be at least 2"
\* The run-time panic of an integer division by zero.
errDivideByZero == "runtime error: integer divide by zero"

\* validateParams: the message of its panic, NoErr when it returns.
validateParams(numRefs, nodeSize) ==
    IF numRefs < 1 THEN errEmptyTree
    ELSE IF nodeSize < 2 THEN errNodeSizeTooSmall
    ELSE NoErr

\* The reader of a Seek call is not nil and its Seek(0, SeekCurrent) works.
ParamCalls ==
    [kind : {"Size", "New", "Unmarshal", "Seek"},
     numRefs : 0..MaxParamRefs, nodeSize : 0..MaxParamNodeSize]

InitParams ==
    /\ call \in ParamCalls
    /\ prt = [nodesThisLevel |-> call.numRefs, numInternal |-> 0]
    /\ srch = [panic |-> NoErr]
    /\ pc = "enter"
    /\ file = Idle
    /\ cursor = 0
    /\ reader = Idle
    /\ out = Idle
    /\ failed = NoErr
    /\ trace = <<>>
    /\ hist = Idle
    /\ writer = Idle
    /\ written = <<>>
    /\ wout = Idle
    /\ wfailed = NoErr

\* Size, and noo called first thing by New and Unmarshal: validateParams,
\* then the loop of size or levelify.
ParamsValidate ==
    /\ pc = "enter"
    /\ call.kind \in {"Size", "New", "Unmarshal"}
    /\ srch' = [panic |-> validateParams(call.numRefs, call.nodeSize)]
    /\ pc' = IF srch'.panic # NoErr THEN "done" ELSE "loop"
    /\ UNCHANGED <<call, prt, readerVars, writerVars>>

\* Seek: the start offset is cached and size is called; the parameters are
\* left to noo, which Seek calls after size has returned.
SeekSize ==
    /\ pc = "enter"
    /\ call.kind = "Seek"
    /\ pc' = "loop"
    /\ UNCHANGED <<call, prt, srch, readerVars, writerVars>>

\* One iteration of the loop of size (of levelify for New and Unmarshal).
\* Dividing by a nodeSize of 0 is a run-time panic; an iteration that
\* leaves nodesThisLevel as it was and different from 1 repeats for ever.
ParamsLoop ==
    /\ pc = "loop"
    /\ IF call.nodeSize = 0
       THEN /\ srch' = [panic |-> errDivideByZero]
            /\ pc' = "done"
            /\ prt' = prt
       ELSE LET nodesThisLevel ==
                    Quo(prt.nodesThisLevel + call.nodeSize - 1, call.nodeSize)
            IN  /\ prt' = [nodesThisLevel |-> nodesThisLevel,
                           numInternal |->
                               WrapBits(prt.numInternal + nodesThisLevel, IntBits)]
                /\ pc' = IF nodesThisLevel # 1 THEN "loop"
                         ELSE IF call.kind = "Seek" THEN "noo" ELSE "done"
                /\ srch' = srch
    /\ UNCHANGED <<call, readerVars, writerVars>>

\* Seek after size: noo validates the parameters.
SeekNoo ==
    /\ pc = "noo"
    /\ srch' = [panic |-> validateParams(call.numRefs, call.nodeSize)]
    /\ pc' = "done"
    /\ UNCHANGED <<call, prt, readerVars, writerVars>>

NextParams == ParamsValidate \/ SeekSize \/ ParamsLoop \/ SeekNoo

\* A call that can take a step takes it.
SpecParams == InitParams /\ [][NextParams]_vars /\ WF_vars(NextParams)

\* C31: a call of Size, New, Unmarshal or Seek with numRefs < 1 or
\* nodeSize < 2 panics with the message of validateParams; Seek does so for
\* every reader, numRefs = 0 and nodeSize = 0 included.
C31_PreconditionPanics ==
    (call.numRefs < 1 \/ call.nodeSize < 2) =>
        <>(pc = "done" /\ srch.panic = validateParams(call.numRefs, call.nodeSize))

\* ------------------------------------------------------------------------
\* Marshal and Unmarshal at the level of bytes.  A number of a node (four
\* float64 and one int64) is an octet of 8 bytes; the memory of the node
\* array holds each octet in the byte order of the host.
\* ------------------------------------------------------------------------
\* The largest number of refs of a marshalled tree.
MaxMarshalRefs == 3

octetLen == 8

\* The 8 bytes of a number, the least significant first (numbers of the
\* model lie within -32768 .. 32767; the upper bytes extend the sign).
octet(v) ==
    [i \in 1..octetLen |->
        IF i = 1 THEN v % 256
        ELSE IF i = 2 THEN (v \div 256) % 256
        ELSE IF v < 0 THEN 255 ELSE 0]

Reverse(s) == [i \in 1..Len(s) |-> s[Len(s) + 1 - i]]

\* A value no number of a node takes: what an octet that is not the octet
\* of such a number reads as.
OtherNumber == Inf * Inf

\* The number whose octet (least significant byte first) is o.
number(o) ==
    With(o[1] + 256 * o[2] - (IF o[octetLen] >= 128 THEN 65536 ELSE 0), LAMBDA v :
        IF octet(v) = o THEN v ELSE OtherNumber)

\* The octet of v as it lies in memory.
native(v, bigEndian) == IF bigEndian THEN Reverse(octet(v)) ELSE octet(v)

\* unsafe.Slice over &nodes[0]: the bytes of the node array.
nodeBytes(n, bigEndian) ==
    native(n.Box.XMin, bigEndian) \o native(n.Box.YMin, bigEndian)
        \o native(n.Box.XMax, bigEndian) \o native(n.Box.YMax, bigEndian)
        \o native(n.Offset, bigEndian)

memory(nodes, bigEndian) ==
    [i \in 1..(numNodeBytes * Len(nodes)) |->
        nodeBytes(nodes[((i - 1) \div numNodeBytes) + 1], bigEndian)
                 [((i - 1) % numNodeBytes) + 1]]

\* The node array a memory of bytes is read as.
nodesOf(mem, bigEndian) ==
    LET num(j, f) ==
            With(SubSeq(mem, numNodeBytes * (j - 1) + octetLen * f + 1,
                        numNodeBytes * (j - 1) + octetLen * (f + 1)), LAMBDA o :
                number(IF bigEndian THEN Reverse(o) ELSE o))
    IN  [j \in 1..(Len(mem) \div numNodeBytes) |->
            [Box |-> MkBox(num(j, 0), num(j, 1), num(j, 2), num(j, 3)),
             Offset |-> num(j, 4)]]

\* Every group of 8 bytes reversed.
swapOctets(b) ==
    [i \in 1..Len(b) |-> b[octetLen * ((i - 1) \div octetLen) + octetLen - ((i - 1) % octetLen)]]

\* Mutant of fixLittleEndianOctets: the bytes are left as read on every
\* host.
fixLittleEndianOctetsNoop(b, bigEndian) == b

\* fixLittleEndianOctets: a no-op on a little-endian host, a swap of every
\* octet on a big-endian one.
fixLittleEndianOctets(b, bigEndian) == IF bigEndian THEN swapOctets(b) ELSE b

\* writeLittleEndianOctets to a writer that takes every byte: the bytes
\* written and their count.
writeLittleEndianOctets(p, bigEndian) ==
    With(IF bigEndian THEN swapOctets(p) ELSE p, LAMBDA buf :
        [bytes |-> buf, n |-> Len(buf), err |-> NoErr])

PackedRTree_Marshal(t, bigEndian) ==
    writeLittleEndianOctets(memory(t.nodes, bigEndian), bigEndian)

ioErrUnexpectedEOF == "unexpected EOF"

\* Unmarshal from a stream of bytes: the tree, the number of bytes consumed.
PackedRTree_Unmarshal(stream, numRefs, nodeSize, bigEndian) ==
    With(noo(numRefs, nodeSize, FALSE), LAMBDA p :
    With(numNodeBytes * Len(p.nodes), LAMBDA len :
        IF Len(stream) < len
        THEN [tree |-> Idle, consumed |-> Len(stream),
              err |-> IF stream = <<>> THEN ioEOF ELSE ioErrUnexpectedEOF]
        ELSE [tree |-> [p EXCEPT !.nodes =
                           nodesOf(fixLittleEndianOctets(SubSeq(stream, 1, len), bigEndian),
                                   bigEndian)],
              consumed |-> len, err |-> NoErr]))

\* tail: the bytes that follow the index in the stream Unmarshal reads.
MarshalCalls ==
    [kind : {"Marshal"}, boxes : BoxLists(MaxMarshalRefs), nodeSize : 2..MaxNodeSize,
     bigEndian : BOOLEAN, tail : {<<>>, <<4, 0, 0, 0>>}]

InitMarshal ==
    /\ call \in MarshalCalls
    /\ prt = Idle
    /\ srch = Idle
    /\ pc = "refs"
    /\ file = Idle
    /\ cursor = 0
    /\ reader = Idle
    /\ out = Idle
    /\ failed = NoErr
    /\ trace = <<>>
    /\ hist = Idle
    /\ writer = Idle
    /\ written = <<>>
    /\ wout = Idle
    /\ wfailed = NoErr

\* New on refs with the boxes of the call, at consecutive offsets.
CallNew ==
    /\ pc = "refs"
    /\ prt' = New(RefsOf(call.boxes, [i \in 1..Len(call.boxes) |-> minFeatureLen]),
                  call.nodeSize)
    /\ pc' = "tree"
    /\ UNCHANGED <<call, srch, readerVars, writerVars>>

CallMarshal ==
    /\ pc = "tree"
    /\ srch' = [marshal |-> PackedRTree_Marshal(prt, call.bigEndian)]
    /\ pc' = "marshalled"
    /\ UNCHANGED <<call, prt, readerVars, writerVars>>

CallUnmarshal ==
    /\ pc = "marshalled"
    /\ srch' = [marshal |-> srch.marshal,
                unmarshal |-> PackedRTree_Unmarshal(srch.marshal.bytes \o call.tail,
                                                    prt.numRefs, prt.nodeSize,
                                                    call.bigEndian)]
    /\ pc' = "unmarshalled"
    /\ UNCHANGED <<call, prt, readerVars, writerVars>>

NextMarshal == CallNew \/ CallMarshal \/ CallUnmarshal

SpecMarshal == InitMarshal /\ [][NextMarshal]_vars

\* C32: Marshal of a tree with numRefs n and nodeSize k writes exactly
\* Size(n, k) bytes and returns that count; Unmarshal of a stream that
\* starts with those bytes, with (n, k), consumes exactly that many bytes
\* and returns a tree with the same level ranges and the same node array.
C32_MarshalRoundTrip ==
    /\ pc \in {"marshalled", "unmarshalled"} =>
          /\ Len(srch.marshal.bytes) = size(prt.numRefs, prt.nodeSize)
          /\ srch.marshal.n = size(prt.numRefs, prt.nodeSize)
          /\ srch.marshal.err = NoErr
    /\ pc = "unmarshalled" =>
          /\ srch.unmarshal.err = NoErr
          /\ srch.unmarshal.consumed = size(prt.numRefs, prt.nodeSize)
          /\ srch.unmarshal.tree.levels = prt.levels
          /\ srch.unmarshal.tree.nodes = prt.nodes

\* A tree of three levels round-tripped on a big-endian host, with bytes
\* following the index.
C32_Witness ==
    /\ pc = "unmarshalled"
    /\ call.bigEndian
    /\ call.tail # <<>>
    /\ Len(prt.levels) = 3
    /\ srch.unmarshal.tree.nodes = prt.nodes
    /\ srch.marshal.bytes # memory(prt.nodes, TRUE)

\* ------------------------------------------------------------------------
\* Box: Expand, intersects, midX and midY on a receiver box.  A float64 is
\* an even integer, -Inf, Inf or NaN; halving an even integer is exact.
\* ------------------------------------------------------------------------
\* The finite coordinates are 0, 2, .., 2 * MaxCoord.
MaxCoord == 1

NaN == 2 * Inf * Inf

BoxCoords == {2 * i : i \in 0..MaxCoord} \cup {-Inf, Inf}

ValidBoxes ==
    {b \in [XMin : BoxCoords, YMin : BoxCoords, XMax : BoxCoords, YMax : BoxCoords] :
        b.XMin <= b.XMax /\ b.YMin <= b.YMax}

Boxes == ValidBoxes \cup {EmptyBox}

\* float64 addition.
FAdd(a, b) ==
    IF a = NaN \/ b = NaN THEN NaN
    ELSE IF (a = Inf /\ b = -Inf) \/ (a = -Inf /\ b = Inf) THEN NaN
    ELSE IF a = Inf \/ b = Inf THEN Inf
    ELSE IF a = -Inf \/ b = -Inf THEN -Inf
    ELSE a + b

\* float64 division by 2.
FHalf(a) == IF a \in {NaN, Inf, -Inf} THEN a ELSE a \div 2

midX(b) == FHalf(FAdd(b.XMin, b.XMax))

midY(b) == FHalf(FAdd(b.YMin, b.YMin))

InitBox ==
    /\ call = Idle
    /\ prt \in Boxes
    /\ srch = Idle
    /\ pc = "box"
    /\ file = Idle
    /\ cursor = 0
    /\ reader = Idle
    /\ out = Idle
    /\ failed = NoErr
    /\ trace = <<>>
    /\ hist = Idle
    /\ writer = Idle
    /\ written = <<>>
    /\ wout = Idle
    /\ wfailed = NoErr

\* b.Expand(&c): prt is the receiver, srch the box c after the call (Expand
\* only reads it).
CallExpand ==
    /\ pc = "box"
    /\ \E c \in Boxes :
          /\ call' = [op |-> "Expand", b |-> prt, c |-> c]
          /\ prt' = Expand(prt, c)
          /\ srch' = [c |-> c]
    /\ pc' = "Expand"
    /\ UNCHANGED <<readerVars, writerVars>>

\* b.intersects(&o)
CallIntersects ==
    /\ pc = "box"
    /\ \E o \in Boxes :
          /\ call' = [op |-> "intersects", b |-> prt, o |-> o]
          /\ srch' = [ret |-> intersects(prt, o)]
    /\ pc' = "intersects"
    /\ UNCHANGED <<prt, readerVars, writerVars>>

\* b.midX() and b.midY()
CallMid ==
    /\ pc = "box"
    /\ call' = [op |-> "mid", b |-> prt]
    /\ srch' = [midX |-> midX(prt), midY |-> midY(prt)]
    /\ pc' = "mid"
    /\ UNCHANGED <<prt, readerVars, writerVars>>

NextBox == CallExpand \/ CallIntersects \/ CallMid

SpecBox == InitBox /\ [][NextBox]_vars

\* a.intersects(b) is the closed-interval test and is symmetric.
ClosedIntervalTest ==
    pc = "intersects" =>
        /\ srch.ret = (/\ call.b.XMin <= call.o.XMax
                       /\ call.o.XMin <= call.b.XMax
                       /\ call.b.YMin <= call.o.YMax
                       /\ call.o.YMin <= call.b.YMax)
        /\ srch.ret = intersects(call.o, call.b)

\* The box that spans the whole plane.
WholePlane == MkBox(-Inf, -Inf, Inf, Inf)

C34_ExpandUnion ==
    pc = "Expand" =>
        /\ prt = MkBox(Min(call.b.XMin, call.c.XMin), Min(call.b.YMin, call.c.YMin),
                       Max(call.b.XMax, call.c.XMax), Max(call.b.YMax, call.c.YMax))
        /\ prt = Expand(call.c, call.b)
        /\ \A d \in Boxes : Expand(prt, d) = Expand(call.b, Expand(call.c, d))
        /\ call.c = EmptyBox => prt = call.b
        /\ call.b = EmptyBox => prt = call.c
        /\ srch.c = call.c

\* A receiver grown in both of its upper coordinates by a valid box.
C34_Witness ==
    /\ pc = "Expand"
    /\ call.b \in ValidBoxes
    /\ call.c \in ValidBoxes
    /\ prt.XMax > call.b.XMax
    /\ prt.YMax > call.b.YMax
    /\ prt.XMin = call.b.XMin

\* ------------------------------------------------------------------------
\* Box.ExpandXY folded over a sequence of points.
\* ------------------------------------------------------------------------
\* The largest number of points folded into a receiver.
MaxPoints == 2

ExpandXY(b, x, y) ==
    [XMin |-> IF x < b.XMin THEN x ELSE b.XMin,
     YMin |-> IF y < b.YMin THEN y ELSE b.YMin,
     XMax |-> IF x < b.XMin THEN b.XMax ELSE IF x > b.XMax THEN x ELSE b.XMax,
     YMax |-> IF y < b.YMin THEN b.YMax ELSE IF y > b.YMax THEN y ELSE b.YMax]

\* The coordinates of a point are finite.
PointCoords == {2 * i : i \in 0..MaxCoord}

\* call.start is the receiver before the first point, srch.points the
\* points so far, srch.before the receiver before the last call.
InitFold ==
    /\ prt \in Boxes
    /\ call = [start |-> prt]
    /\ srch = [points |-> <<>>, before |-> prt]
    /\ pc = "box"
    /\ file = Idle
    /\ cursor = 0
    /\ reader = Idle
    /\ out = Idle
    /\ failed = NoErr
    /\ trace = <<>>
    /\ hist = Idle
    /\ writer = Idle
    /\ written = <<>>
    /\ wout = Idle
    /\ wfailed = NoErr

\* b.ExpandXY(x, y)
CallExpandXY ==
    /\ Len(srch.points) < MaxPoints
    /\ \E x \in PointCoords, y \in PointCoords :
          /\ prt' = ExpandXY(prt, x, y)
          /\ srch' = [points |-> Append(srch.points, [x |-> x, y |-> y]), before |-> prt]
    /\ pc' = "ExpandXY"
    /\ UNCHANGED <<call, readerVars, writerVars>>

NextFold == CallExpandXY

SpecFold == InitFold /\ [][NextFold]_vars

\* The bounding box of a non-empty sequence of points.
BoundingBox(points) ==
    LET xs == {points[i].x : i \in 1..Len(points)}
        ys == {points[i].y : i \in 1..Len(points)}
    IN  MkBox(CHOOSE v \in xs : \A w \in xs : v <= w, CHOOSE v \in ys : \A w \in ys : v <= w,
              CHOOSE v \in xs : \A w \in xs : v >= w, CHOOSE v \in ys : \A w \in ys : v >= w)

\* C35: ExpandXY(x, y) makes the receiver the union of its previous value
\* with the box [x, y, x, y], for every receiver, EmptyBox included; so
\* the fold of ExpandXY over a sequence of points from EmptyBox is the
\* bounding box of the points, in whatever order they come.
C35_ExpandXYUnion ==
    pc = "ExpandXY" =>
        /\ LET p == srch.points[Len(srch.points)]
           IN  prt = Expand(srch.before, MkBox(p.x, p.y, p.x, p.y))
        /\ call.start = EmptyBox => prt = BoundingBox(srch.points)

\* The number of groups of nodeSize consecutive nodes of level i (levels
\* are counted from 1 here, the leaves first).
NumGroups(t, i) ==
    Ceil(t.levels[i].end - t.levels[i].start, t.nodeSize)

\* C36: after New(refs, k), for every level below the root and every group
\* of k consecutive nodes of the level (the last group may be shorter), the
\* g-th node of the next level has the node index of the first node of the
\* g-th group as its offset and the union of the group's boxes as its box.
C36_ParentOfEachGroup ==
    pc = "tree" =>
    \A i \in 1..(Len(prt.levels) - 1) :
        \A g \in 0..(NumGroups(prt, i) - 1) :
            LET first == prt.levels[i].start + g * prt.nodeSize
                last == Min(first + prt.nodeSize, prt.levels[i].end)
                parent == prt.nodes[prt.levels[i + 1].start + g + 1]
            IN  /\ parent.Offset = first
                /\ parent.Box = expandRange(prt.nodes, EmptyBox, first, last)

\* The states a reader rests in between calls.
StableStates == {uninitialized, afterHeader, afterIndex, inData, eof}

\* C37: whenever a public Reader method has returned, an error is latched
\* or the state is one of Uninit, AfterHeader, AfterIndex, InData and EOF:
\* a state with the invalid bit (BeforeMagic, BeforeHeader, BeforeIndex) is
\* never left behind without a latched error.
C37_NoTransientStateLeft ==
    (out.op # "NewReader" /\ out.err \notin {GoPanic, GoHang}) =>
        \/ reader.err # NoErr
        \/ reader.state \in StableStates

\* ------------------------------------------------------------------------
\* hilbertOfCenter and hilbertOfXY.  A uint32 is the set of the positions
\* (0 the lowest) of its bits that are 1.
\* ------------------------------------------------------------------------
\* The extents of the bounds are 0 and the powers of two up to
\* 2^MaxExtentLog, so that every quotient is exact in float64.
MaxExtentLog == 2

HilbertOrder == 16

hilbertMax == Power(2, HilbertOrder) - 1

\* The uint32 of an integer in 0 .. 2^31 - 1.
Bits(n) == {i \in 0..30 : (n \div Power(2, i)) % 2 = 1}

Xor(a, b) == (a \ b) \cup (b \ a)

Shr(a, k) == {i - k : i \in {j \in a : j >= k}}

Shl(a, k) == {i + k : i \in {j \in a : j + k <= 31}}

\* 0xFFFF, 0x00FF00FF, 0x0F0F0F0F, 0x33333333, 0x55555555
Mask16 == 0..15
Mask8 == {i \in 0..31 : (i \div 8) % 2 = 0}
Mask4 == {i \in 0..31 : (i \div 4) % 2 = 0}
Mask2 == {i \in 0..31 : (i \div 2) % 2 = 0}
Mask1 == {i \in 0..31 : i % 2 = 0}

\* hilbertOfXY, the first block: <<A, B, C, D>>.
hilbertFirst(x, y) ==
    With(<<Xor(x, y), Xor(Mask16, Xor(x, y)), Xor(Mask16, x \cup y), x \cap Xor(y, Mask16)>>,
         LAMBDA s :
        <<s[1] \cup Shr(s[2], 1),
          Xor(Shr(s[1], 1), s[1]),
          Xor(Xor(Shr(s[3], 1), s[2] \cap Shr(s[4], 1)), s[3]),
          Xor(Xor(s[1] \cap Shr(s[3], 1), Shr(s[4], 1)), s[4])>>)

\* hilbertOfXY, a block with shift k on <<a, b, c, d>>; the block with
\* shift 8 uses only its C and D.
hilbertBlock(s, k) ==
    <<Xor(s[1] \cap Shr(s[1], k), s[2] \cap Shr(s[2], k)),
      Xor(s[1] \cap Shr(s[2], k), s[2] \cap Shr(Xor(s[1], s[2]), k)),
      Xor(s[3], Xor(s[1] \cap Shr(s[3], k), s[2] \cap Shr(s[4], k))),
      Xor(s[4], Xor(s[2] \cap Shr(s[3], k), Xor(s[1], s[2]) \cap Shr(s[4], k)))>>

\* The bits of the lower half of i moved to the even positions.
hilbertSpread(i) ==
    With((i \cup Shl(i, 8)) \cap Mask8, LAMBDA i8 :
    With((i8 \cup Shl(i8, 4)) \cap Mask4, LAMBDA i4 :
    With((i4 \cup Shl(i4, 2)) \cap Mask2, LAMBDA i2 :
        (i2 \cup Shl(i2, 1)) \cap Mask1)))

hilbertOfXY(x, y) ==
    With(hilbertFirst(x, y), LAMBDA s1 :
    With(hilbertBlock(s1, 2), LAMBDA s2 :
    With(hilbertBlock(s2, 4), LAMBDA s4 :
    With(hilbertBlock(s4, 8), LAMBDA s8 :
    With(<<Xor(s8[3], Shr(s8[3], 1)), Xor(s8[4], Shr(s8[4], 1)), Xor(x, y)>>, LAMBDA t :
    With(t[2] \cup Xor(Mask16, t[3] \cup t[1]), LAMBDA i1 :
        Shl(hilbertSpread(i1), 1) \cup hilbertSpread(t[3])))))))

\* The values uint32(math.Floor(hilbertMax * (num / den))) can take.  A
\* float64 that is NaN, infinite or negative has no uint32: the result of
\* the conversion depends on the implementation (zero or all ones for NaN
\* and the infinities, zero or the low 32 bits of the integer for a
\* negative number).
toUint32(num, den) ==
    IF den = 0 THEN {{}, 0..31}
    ELSE With((hilbertMax * num) \div den, LAMBDA v :
             IF v < 0 THEN {{}, (0..31) \ Bits((0 - v) - 1)} ELSE {Bits(v)})

\* hilbertOfCenter: the values it can return.  hy is never assigned; when
\* eh # 0 the value computed from the y-axis is assigned to hx.
hilbertOfCenter(b, ex, ey, ew, eh) ==
    With(IF eh # 0 THEN toUint32(midY(b) - ey, ey)
         ELSE IF ew # 0 THEN toUint32(midX(b) - ex, ew)
         ELSE {{}}, LAMBDA hxs :
        {hilbertOfXY(hx, {}) : hx \in hxs})

Extents == {0} \cup {Power(2, i) : i \in 1..MaxExtentLog}

\* The calls: bounds (ex, ey, ew, eh) and a valid box inside them, all
\* coordinates even.
HilbertCalls ==
    {c \in [b : [XMin : 0..(2 + Power(2, MaxExtentLog)), YMin : 0..(2 + Power(2, MaxExtentLog)),
                 XMax : 0..(2 + Power(2, MaxExtentLog)), YMax : 0..(2 + Power(2, MaxExtentLog))],
            ex : {0, 2}, ey : {0, 2}, ew : Extents, eh : Extents] :
        /\ \A v \in {c.b.XMin, c.b.YMin, c.b.XMax, c.b.YMax} : v % 2 = 0
        /\ c.ex <= c.b.XMin /\ c.b.XMin <= c.b.XMax /\ c.b.XMax <= c.ex + c.ew
        /\ c.ey <= c.b.YMin /\ c.b.YMin <= c.b.YMax /\ c.b.YMax <= c.ey + c.eh}

InitHilbert ==
    /\ call \in HilbertCalls
    /\ prt = Idle
    /\ srch = Idle
    /\ pc = "box"
    /\ file = Idle
    /\ cursor = 0
    /\ reader = Idle
    /\ out = Idle
    /\ failed = NoErr
    /\ trace = <<>>
    /\ hist = Idle
    /\ writer = Idle
    /\ written = <<>>
    /\ wout = Idle
    /\ wfailed = NoErr

CallHilbertOfCenter ==
    /\ pc = "box"
    /\ \E h \in hilbertOfCenter(call.b, call.ex, call.ey, call.ew, call.eh) :
          srch' = [ret |-> h]
    /\ pc' = "hilbert"
    /\ UNCHANGED <<call, prt, readerVars, writerVars>>

NextHilbert == CallHilbertOfCenter

SpecHilbert == InitHilbert /\ [][NextHilbert]_vars

\* C38: hilbertOfCenter(b, ex, ey, ew, eh) returns hilbertOfXY(hx, hy) with
\* hx = floor((midX(b) - ex) / ew * 65535), 0 when ew = 0, and
\* hy = floor((midY(b) - ey) / eh * 65535), 0 when eh = 0, the centre being
\* the mean of the two extremes on each axis.
C38_HilbertOfCenter ==
    pc = "hilbert" =>
        LET hx == IF call.ew = 0 THEN 0
                  ELSE (hilbertMax * ((call.b.XMin + call.b.XMax) \div 2 - call.ex)) \div call.ew
            hy == IF call.eh = 0 THEN 0
                  ELSE (hilbertMax * ((call.b.YMin + call.b.YMax) \div 2 - call.ey)) \div call.eh
        IN  srch.ret = hilbertOfXY(Bits(hx), Bits(hy))

\* C39: for every valid box midX returns (XMin + XMax) / 2 and midY
\* returns (YMin + YMax) / 2.
C39_MidIsMean ==
    (pc = "mid" /\ call.b \in ValidBoxes) =>
        /\ srch.midX = FHalf(FAdd(call.b.XMin, call.b.XMax))
        /\ srch.midY = FHalf(FAdd(call.b.YMin, call.b.YMax))

\* ------------------------------------------------------------------------
\* PropWriter and PropReader: fixed-width integers and binaries.
\* ------------------------------------------------------------------------
\* The largest length of a binary property.
MaxBinaryLen == 258

\* A property type: the number of bytes of its values and whether they are
\* signed.
PropTypes ==
    {[name |-> "Byte", size |-> 1, signed |-> TRUE],
     [name |-> "UByte", size |-> 1, signed |-> FALSE],
     [name |-> "Short", size |-> 2, signed |-> TRUE],
     [name |-> "UShort", size |-> 2, signed |-> FALSE],
     [name |-> "Int", size |-> 4, signed |-> TRUE],
     [name |-> "UInt", size |-> 4, signed |-> FALSE],
     [name |-> "Long", size |-> 8, signed |-> TRUE],
     [name |-> "ULong", size |-> 8, signed |-> FALSE]}

\* The values of a type that the calls use (of the types of 4 and 8 bytes,
\* those within -2^31 .. 2^31 - 1).
PropValues(t) ==
    LET samples == {0, 1, 127, 128, 255, 256, 257, 511, 32767, 32768, 65535, 65536,
                    Power(2, 24), Power(2, 30) + (Power(2, 30) - 1)}
        bits == IF t.size > 3 THEN 31 ELSE 8 * t.size - (IF t.signed THEN 1 ELSE 0)
        top == Power(2, bits - 1) + (Power(2, bits - 1) - 1)
    IN  {v \in samples : v <= top}
            \cup (IF t.signed THEN {(0 - v) - 1 : v \in {w \in samples : w <= top}} ELSE {})

\* byte(v >> (8 * k)) for -2^31 < v < 2^31.
byteOf(v, k) ==
    IF k > 3 THEN (IF v < 0 THEN 255 ELSE 0)
    ELSE (v \div Power(2, 8 * k)) % 256

\* WriteByte .. WriteULong to a writer that takes every byte.
PropWriter_Write(t, v) ==
    [bytes |-> [i \in 1..t.size |-> byteOf(v, i - 1)], n |-> t.size, err |-> NoErr]

\* b << s on a uint8.
shlUint8(b, s) == IF s >= 8 THEN 0 ELSE (b * Power(2, s)) % 256

\* The integer of a set of bits below bit 31.
RECURSIVE FromBits(_)
FromBits(s) ==
    IF s = {} THEN 0
    ELSE LET i == CHOOSE j \in s : TRUE IN Power(2, i) + FromBits(s \ {i})

\* ReadByte .. ReadULong: T(b[0]) | T(b[1]<<8) | .., every shift done on the
\* uint8 before the conversion to T.
PropReader_Read(t, stream) ==
    IF Len(stream) < t.size
    THEN [v |-> 0, consumed |-> Len(stream),
          err |-> IF stream = <<>> THEN ioEOF ELSE ioErrUnexpectedEOF]
    ELSE With(FromBits(UNION {Bits(shlUint8(stream[k + 1], 8 * k)) : k \in 0..(t.size - 1)}),
              LAMBDA u :
             [v |-> IF t.signed /\ t.size < 4 /\ u >= Power(2, 8 * t.size - 1)
                    THEN u - Power(2, 8 * t.size) ELSE u,
              consumed |-> t.size, err |-> NoErr])

UIntType == [name |-> "UInt", size |-> 4, signed |-> FALSE]

\* WriteBinary: the length as a UInt, then the bytes.
PropWriter_WriteBinary(v) ==
    With(PropWriter_Write(UIntType, Len(v)), LAMBDA l :
        [bytes |-> l.bytes \o v, n |-> l.n + Len(v), err |-> NoErr])

\* ReadBinary: the length by ReadUInt, then that many bytes.
PropReader_ReadBinary(stream) ==
    With(PropReader_Read(UIntType, stream), LAMBDA l :
        IF l.err # NoErr THEN [data |-> <<>>, consumed |-> l.consumed, err |-> l.err]
        ELSE IF Len(stream) - l.consumed < l.v
        THEN [data |-> <<>>, consumed |-> Len(stream), err |-> ioErrUnexpectedEOF]
        ELSE [data |-> SubSeq(stream, l.consumed + 1, l.consumed + l.v),
              consumed |-> l.consumed + l.v, err |-> NoErr])

BinaryLens == {0, 1, 255, MaxBinaryLen - 2, MaxBinaryLen - 1, MaxBinaryLen}

\* v is the integer of a WriteX call, data the bytes of a WriteBinary call.
PropCalls ==
    UNION {{[type |-> t, v |-> v, data |-> <<>>] : v \in PropValues(t)} : t \in PropTypes}
        \cup {[type |-> [name |-> "Binary", size |-> n, signed |-> FALSE],
               v |-> 0, data |-> [i \in 1..n |-> i % 256]] : n \in BinaryLens}

InitProp ==
    /\ call \in PropCalls
    /\ prt = Idle
    /\ srch = Idle
    /\ pc = "value"
    /\ file = Idle
    /\ cursor = 0
    /\ reader = Idle
    /\ out = Idle
    /\ failed = NoErr
    /\ trace = <<>>
    /\ hist = Idle
    /\ writer = Idle
    /\ written = <<>>
    /\ wout = Idle
    /\ wfailed = NoErr

\* PropWriter.WriteX(v)
CallPropWrite ==
    /\ pc = "value"
    /\ prt' = IF call.type.name = "Binary" THEN PropWriter_WriteBinary(call.data)
              ELSE PropWriter_Write(call.type, call.v)
    /\ pc' = "written"
    /\ UNCHANGED <<call, srch, readerVars, writerVars>>

\* PropReader.ReadX on the bytes written
CallPropRead ==
    /\ pc = "written"
    /\ srch' = IF call.type.name = "Binary"
               THEN With(PropReader_ReadBinary(prt.bytes), LAMBDA r :
                        [v |-> 0, data |-> r.data, consumed |-> r.consumed, err |-> r.err])
               ELSE With(PropReader_Read(call.type, prt.bytes), LAMBDA r :
                        [v |-> r.v, data |-> <<>>, consumed |-> r.consumed, err |-> r.err])
    /\ pc' = "read"
    /\ UNCHANGED <<call, prt, readerVars, writerVars>>

NextProp == CallPropWrite \/ CallPropRead

SpecProp == InitProp /\ [][NextProp]_vars

\* C40: for every value v of a fixed-width integer property type, WriteX(v)
\* followed by ReadX on the written bytes returns v, values of 256 and more
\* included, and WriteBinary followed by ReadBinary returns the original
\* bytes.
C40_PropRoundTrip ==
    pc = "read" =>
        /\ srch.err = NoErr
        /\ srch.v = call.v
        /\ srch.data = call.data

====
